---- MODULE Spec2Model ----
(***************************************************************************)
(* Derivation layer of the facility intelligence backend: event            *)
(* reconstruction (app/services/event_service.py), the sensor summary      *)
(* builder (app/services/sensor_service.py), the readings accessor         *)
(* (app/services/readings_service.py), the baseline engine                 *)
(* (app/services/baseline_service.py) and the sensor routes                *)
(* (app/routes/sensors.py) over the reading tables.                        *)
(*                                                                         *)
(* Conventions.  A datetime is an integer number of milliseconds.  A float *)
(* of a table or of the summary builder is a fixed-point integer number of *)
(* tenths (-18.0 is -180); a float returned by the readings accessor or    *)
(* the baseline engine is a number of hundredths.  An optional value is a  *)
(* sequence of length at most one: None is <<>>, a present x is <<x>>.     *)
(***************************************************************************)
EXTENDS Integers, Sequences, FiniteSets, TLC

VARIABLES
    door_readings,           \* table door_readings: rows [sensor_id, timestamp, value]
    motion_readings,         \* table motion_readings
    environmental_readings,  \* table environmental_readings (value is the temperature)
    air_quality_readings,    \* table air_quality_readings (value is co2_ppm)
    call,                    \* the service call in progress, [op |-> "idle"] when none:
                             \* its arguments and, for a listing, the statements it executed
    ret                      \* what that call returned

tables == <<door_readings, motion_readings, environmental_readings, air_quality_readings>>

vars == <<tables, call, ret>>

None == <<>>
Some(x) == <<x>>

Idle == [op |-> "idle"]

----------------------------------------------------------------------------
(* Bounds of the model. *)

\* rows in the door and motion tables together (event reconstruction)
MaxEventRows == 3

\* rows in the tables read by the summary builder
MaxTrendRows == 4

----------------------------------------------------------------------------
(* Reference data: the sensors and zones tables. *)

Zone == {
    [id |-> "loading", name |-> "Loading Bay"],
    [id |-> "cold-a",  name |-> "Cold Room A"],
    [id |-> "cold-b",  name |-> "Cold Room B"],
    [id |-> "dry",     name |-> "Dry Storage"] }

\* Two door sensors and two environmental sensors share a zone so that a
\* zone filter selects several sensors of one type; the loading bay has four
\* sensors, as in the seeded facility; "dry-vibration" carries
\* a type tag the registry does not know;
\* "annex-temp" points at a zone that is not in the zones table.
Sensor == {
    [id |-> "loading-door",   zone_id |-> "loading", sensor_type |-> "door",
     warning_threshold |-> None, critical_threshold |-> None],
    [id |-> "loading-door-2", zone_id |-> "loading", sensor_type |-> "door",
     warning_threshold |-> None, critical_threshold |-> None],
    [id |-> "cold-a-motion",  zone_id |-> "cold-a",  sensor_type |-> "motion",
     warning_threshold |-> None, critical_threshold |-> None],
    [id |-> "cold-b-motion",  zone_id |-> "cold-b",  sensor_type |-> "motion",
     warning_threshold |-> None, critical_threshold |-> None],
    [id |-> "cold-b-temp",    zone_id |-> "cold-b",  sensor_type |-> "environmental",
     warning_threshold |-> Some(-180), critical_threshold |-> Some(-100)],
    [id |-> "cold-b-temp-2",  zone_id |-> "cold-b",  sensor_type |-> "environmental",
     warning_threshold |-> Some(-180), critical_threshold |-> None],
    [id |-> "loading-aq",     zone_id |-> "loading", sensor_type |-> "air_quality",
     warning_threshold |-> Some(8000), critical_threshold |-> Some(12000)],
    [id |-> "loading-temp",   zone_id |-> "loading", sensor_type |-> "environmental",
     warning_threshold |-> None, critical_threshold |-> None],
    [id |-> "dry-vibration",  zone_id |-> "dry",     sensor_type |-> "vibration",
     warning_threshold |-> None, critical_threshold |-> None],
    [id |-> "annex-temp",     zone_id |-> "annex",   sensor_type |-> "environmental",
     warning_threshold |-> None, critical_threshold |-> None] }

SensorIds == {s.id : s \in Sensor}
ZoneIds == {z.id : z \in Zone}

SensorOf(id) == CHOOSE s \in Sensor : s.id = id

SensorsOfType(t) == {s.id : s \in {x \in Sensor : x.sensor_type = t}}

\* String order of the sensor ids (ORDER BY sensor_id).
SensorIdOrder ==
    <<"annex-temp", "cold-a-motion", "cold-b-motion", "cold-b-temp", "cold-b-temp-2",
      "dry-vibration", "loading-aq", "loading-door", "loading-door-2", "loading-temp">>

Rank(id) == CHOOSE i \in 1..Len(SensorIdOrder) : SensorIdOrder[i] = id

----------------------------------------------------------------------------
(* Time. *)

\* timestamps the door and motion sensors sample at
EventTimes == {0, 599500, 600000, 1200000}

\* query windows <<start, end>> of the event calls
EventWindows == {<<0, 1200000>>, <<599500, 1200500>>}

\* int(timedelta.total_seconds()): truncation toward zero
IntSeconds(delta) ==
    IF delta >= 0 THEN delta \div 1000 ELSE -((-delta) \div 1000)

----------------------------------------------------------------------------
(* Queries. *)

\* The rows of S whose sensor is s.
RowsOf(S, s) == {r \in S : r.sensor_id = s}

\* WHERE timestamp >= start AND timestamp <= end
InWindow(S, start, end) == {r \in S : r.timestamp >= start /\ r.timestamp <= end}

Before(a, b) ==
    \/ Rank(a.sensor_id) < Rank(b.sensor_id)
    \/ a.sensor_id = b.sensor_id /\ a.timestamp < b.timestamp

\* ORDER BY timestamp alone (ties by sensor_id)
RECURSIVE OrderByTime(_)
OrderByTime(S) ==
    IF S = {} THEN <<>>
    ELSE LET first ==
                 CHOOSE r \in S : \A o \in S \ {r} :
                     \/ r.timestamp < o.timestamp
                     \/ r.timestamp = o.timestamp /\ Rank(r.sensor_id) < Rank(o.sensor_id)
         IN  <<first>> \o OrderByTime(S \ {first})

\* ORDER BY sensor_id, timestamp
RECURSIVE OrderBySensorTime(_)
OrderBySensorTime(S) ==
    IF S = {} THEN <<>>
    ELSE LET first == CHOOSE r \in S : \A o \in S \ {r} : Before(r, o)
         IN  <<first>> \o OrderBySensorTime(S \ {first})

\* the sensors of the type, whatever their zone
_get_sensor_ids_for_zone_AnyZone(zone_id, sensor_type) ==
    {x.id : x \in {y \in Sensor : y.sensor_type = sensor_type}}

\* select(Sensor.id).where(zone_id = ..., sensor_type = ...)
_get_sensor_ids_for_zone(zone_id, sensor_type) ==
    {s.id : s \in {x \in Sensor : x.zone_id = zone_id /\ x.sensor_type = sensor_type}}

----------------------------------------------------------------------------
(* get_door_events *)

DoorEvent(sensor_id, opened_at, closed_at, duration_seconds) ==
    [sensor_id |-> sensor_id, opened_at |-> opened_at, closed_at |-> closed_at,
     duration_seconds |-> duration_seconds]

\* the locals of the walk before the first reading
WalkInit ==
    [events |-> <<>>, current_sensor_id |-> None, current_event_start |-> None,
     prev |-> None]

\* DoorSwitch carrying the marker and the previous state over to the next
\* sensor
DoorSwitch_KeepMarker(st, reading, end) ==
    IF Some(reading.sensor_id) # st.current_sensor_id
    THEN [st EXCEPT !.events =
                        IF st.current_event_start # None /\ st.current_sensor_id # None
                        THEN Append(@, DoorEvent(st.current_sensor_id[1],
                                                 st.current_event_start[1], None,
                                                 IntSeconds(end - st.current_event_start[1])))
                        ELSE @,
                    !.current_sensor_id = Some(reading.sensor_id)]
    ELSE st

\* DoorSwitch dropping the still-open event of the sensor it leaves
DoorSwitch_Drop(st, reading, end) ==
    IF Some(reading.sensor_id) # st.current_sensor_id
    THEN [events |-> st.events,
          current_sensor_id |-> Some(reading.sensor_id),
          current_event_start |-> None,
          prev |-> None]
    ELSE st

\* "Reset state when switching sensors": the still-open event of the previous
\* sensor is emitted against the end of the window, then the locals are reset.
DoorSwitch(st, reading, end) ==
    IF Some(reading.sensor_id) # st.current_sensor_id
    THEN [events |->
              IF st.current_event_start # None /\ st.current_sensor_id # None
              THEN Append(st.events,
                          DoorEvent(st.current_sensor_id[1], st.current_event_start[1], None,
                                    IntSeconds(end - st.current_event_start[1])))
              ELSE st.events,
          current_sensor_id |-> Some(reading.sensor_id),
          current_event_start |-> None,
          prev |-> None]
    ELSE st

\* DoorTransition leaving the event open after it has emitted it
DoorTransition_KeepOpen(st, reading) ==
    IF st.prev # None /\ st.prev[1] /\ ~reading.value /\ st.current_event_start # None
    THEN [st EXCEPT !.events =
                        Append(@, DoorEvent(reading.sensor_id, st.current_event_start[1],
                                            Some(reading.timestamp),
                                            IntSeconds(reading.timestamp
                                                       - st.current_event_start[1]))),
                    !.prev = Some(reading.value)]
    ELSE [st EXCEPT !.current_event_start =
                        IF reading.value /\ (st.prev = None \/ ~st.prev[1])
                        THEN Some(reading.timestamp) ELSE @,
                    !.prev = Some(reading.value)]

\* DoorTransition with every open sample restarting the event
DoorTransition_Reopen(st, reading) ==
    IF reading.value
    THEN [st EXCEPT !.current_event_start = Some(reading.timestamp),
                    !.prev = Some(reading.value)]
    ELSE IF st.prev # None /\ st.prev[1] /\ st.current_event_start # None
    THEN [st EXCEPT !.events =
                        Append(@, DoorEvent(reading.sensor_id, st.current_event_start[1],
                                            Some(reading.timestamp),
                                            IntSeconds(reading.timestamp
                                                       - st.current_event_start[1]))),
                    !.current_event_start = None,
                    !.prev = Some(reading.value)]
    ELSE [st EXCEPT !.prev = Some(reading.value)]

\* "Detect transitions"
DoorTransition(st, reading) ==
    IF st.prev # None
    THEN IF ~st.prev[1] /\ reading.value
         THEN [st EXCEPT !.current_event_start = Some(reading.timestamp),
                         !.prev = Some(reading.value)]
         ELSE IF st.prev[1] /\ ~reading.value /\ st.current_event_start # None
         THEN [st EXCEPT !.events =
                             Append(@, DoorEvent(reading.sensor_id, st.current_event_start[1],
                                                 Some(reading.timestamp),
                                                 IntSeconds(reading.timestamp
                                                            - st.current_event_start[1]))),
                         !.current_event_start = None,
                         !.prev = Some(reading.value)]
         ELSE [st EXCEPT !.prev = Some(reading.value)]
    ELSE [st EXCEPT !.current_event_start =
                        IF reading.value THEN Some(reading.timestamp) ELSE @,
                    !.prev = Some(reading.value)]

\* one iteration of "for reading in readings"
DoorStep(st, reading, end) == DoorTransition(DoorSwitch(st, reading, end), reading)

\* the locals after the first n readings
RECURSIVE DoorWalk(_, _, _)
DoorWalk(readings, n, end) ==
    IF n = 0 THEN WalkInit
    ELSE DoorStep(DoorWalk(readings, n - 1, end), readings[n], end)

\* "Handle any still-open event at end"
DoorFinish(st, end) ==
    IF st.current_event_start # None /\ st.current_sensor_id # None
    THEN Append(st.events,
                DoorEvent(st.current_sensor_id[1], st.current_event_start[1], None,
                          IntSeconds(end - st.current_event_start[1])))
    ELSE st.events

\* the query of get_door_events: window, then sensor_id or else zone_id filter
DoorQuery(table, start, end, sensor_id, zone_id) ==
    LET windowed == InWindow(table, start, end)
        filtered ==
            IF sensor_id # None THEN {r \in windowed : r.sensor_id = sensor_id[1]}
            ELSE IF zone_id # None
            THEN {r \in windowed :
                      r.sensor_id \in _get_sensor_ids_for_zone(zone_id[1], "door")}
            ELSE windowed
    IN  OrderBySensorTime(filtered)

get_door_events(table, start, end, sensor_id, zone_id) ==
    LET readings == DoorQuery(table, start, end, sensor_id, zone_id)
    IN  DoorFinish(DoorWalk(readings, Len(readings), end), end)

----------------------------------------------------------------------------
(* get_presence_events *)

SAFETY_CONCERN_THRESHOLD_SECONDS == 600

\* PresenceEvent flagging only durations above the threshold
PresenceEvent_Above(sensor_id, zone_id, started_at, ended_at, duration) ==
    [sensor_id |-> sensor_id, zone_id |-> zone_id, started_at |-> started_at,
     ended_at |-> ended_at, duration_seconds |-> duration,
     is_safety_concern |-> (duration > SAFETY_CONCERN_THRESHOLD_SECONDS)]

\* PresenceEvent(...) as the three call sites build it
PresenceEvent(sensor_id, zone_id, started_at, ended_at, duration) ==
    [sensor_id |-> sensor_id, zone_id |-> zone_id, started_at |-> started_at,
     ended_at |-> ended_at, duration_seconds |-> duration,
     is_safety_concern |-> (duration >= SAFETY_CONCERN_THRESHOLD_SECONDS)]

\* PresenceAppend dropping the event that lasts exactly the minimum
PresenceAppend_Strict(events, event, min_duration_seconds) ==
    IF event.duration_seconds > min_duration_seconds THEN Append(events, event)
    ELSE events

\* "if duration >= min_duration_seconds: events.append(...)"
PresenceAppend(events, event, min_duration_seconds) ==
    IF event.duration_seconds >= min_duration_seconds THEN Append(events, event)
    ELSE events

\* the locals of the presence walk before the first row
PresenceInit ==
    [events |-> <<>>, current_sensor_id |-> None, current_zone_id |-> None,
     current_event_start |-> None, prev |-> None]

\* current_zone_id or ""
ZoneOrEmpty(z) == IF z = None THEN "" ELSE z[1]

\* "Reset state when switching sensors"
PresenceSwitch(st, row, end, min_duration_seconds) ==
    IF Some(row.sensor_id) # st.current_sensor_id
    THEN [events |->
              IF st.current_event_start # None /\ st.current_sensor_id # None
              THEN PresenceAppend(
                       st.events,
                       PresenceEvent(st.current_sensor_id[1], ZoneOrEmpty(st.current_zone_id),
                                     st.current_event_start[1], None,
                                     IntSeconds(end - st.current_event_start[1])),
                       min_duration_seconds)
              ELSE st.events,
          current_sensor_id |-> Some(row.sensor_id),
          current_zone_id |-> Some(row.zone),
          current_event_start |-> None,
          prev |-> None]
    ELSE st

\* PresenceTransition with a first sample that never opens an event
PresenceTransition_SkipFirst(st, row, min_duration_seconds) ==
    IF st.prev # None
    THEN IF ~st.prev[1] /\ row.value
         THEN [st EXCEPT !.current_event_start = Some(row.timestamp),
                         !.prev = Some(row.value)]
         ELSE IF st.prev[1] /\ ~row.value /\ st.current_event_start # None
         THEN [st EXCEPT !.events =
                             PresenceAppend(
                                 @,
                                 PresenceEvent(row.sensor_id, row.zone,
                                               st.current_event_start[1], Some(row.timestamp),
                                               IntSeconds(row.timestamp
                                                          - st.current_event_start[1])),
                                 min_duration_seconds),
                         !.current_event_start = None,
                         !.prev = Some(row.value)]
         ELSE [st EXCEPT !.prev = Some(row.value)]
    ELSE [st EXCEPT !.prev = Some(row.value)]

\* "Detect transitions"
PresenceTransition(st, row, min_duration_seconds) ==
    IF st.prev # None
    THEN IF ~st.prev[1] /\ row.value
         THEN [st EXCEPT !.current_event_start = Some(row.timestamp),
                         !.prev = Some(row.value)]
         ELSE IF st.prev[1] /\ ~row.value /\ st.current_event_start # None
         THEN [st EXCEPT !.events =
                             PresenceAppend(
                                 @,
                                 PresenceEvent(row.sensor_id, row.zone,
                                               st.current_event_start[1], Some(row.timestamp),
                                               IntSeconds(row.timestamp
                                                          - st.current_event_start[1])),
                                 min_duration_seconds),
                         !.current_event_start = None,
                         !.prev = Some(row.value)]
         ELSE [st EXCEPT !.prev = Some(row.value)]
    ELSE [st EXCEPT !.current_event_start =
                        IF row.value THEN Some(row.timestamp) ELSE @,
                    !.prev = Some(row.value)]

\* one iteration of "for reading, zone in rows"
PresenceStep(st, row, end, min_duration_seconds) ==
    PresenceTransition(PresenceSwitch(st, row, end, min_duration_seconds), row,
                       min_duration_seconds)

\* the locals after the first n rows
RECURSIVE PresenceWalk(_, _, _, _)
PresenceWalk(rows, n, end, min_duration_seconds) ==
    IF n = 0 THEN PresenceInit
    ELSE PresenceStep(PresenceWalk(rows, n - 1, end, min_duration_seconds), rows[n], end,
                      min_duration_seconds)

\* "Handle any still-active event at end"
PresenceFinish(st, end, min_duration_seconds) ==
    IF st.current_event_start # None /\ st.current_sensor_id # None
    THEN PresenceAppend(
             st.events,
             PresenceEvent(st.current_sensor_id[1], ZoneOrEmpty(st.current_zone_id),
                           st.current_event_start[1], None,
                           IntSeconds(end - st.current_event_start[1])),
             min_duration_seconds)
    ELSE st.events

\* select(MotionReading, Sensor.zone_id).join(Sensor, ...): each motion row
\* with the zone of its sensor; rows of no sensor are dropped by the join
MotionJoinSensor(table) ==
    {[sensor_id |-> r.sensor_id, timestamp |-> r.timestamp, value |-> r.value,
      zone |-> SensorOf(r.sensor_id).zone_id] : r \in {x \in table : x.sensor_id \in SensorIds}}

\* the query of get_presence_events
PresenceQuery(table, start, end, sensor_id, zone_id) ==
    LET windowed == InWindow(MotionJoinSensor(table), start, end)
        filtered ==
            IF sensor_id # None THEN {r \in windowed : r.sensor_id = sensor_id[1]}
            ELSE IF zone_id # None THEN {r \in windowed : r.zone = zone_id[1]}
            ELSE windowed
    IN  OrderBySensorTime(filtered)

get_presence_events(table, start, end, sensor_id, zone_id, min_duration_seconds) ==
    LET rows == PresenceQuery(table, start, end, sensor_id, zone_id)
    IN  PresenceFinish(PresenceWalk(rows, Len(rows), end, min_duration_seconds), end,
                       min_duration_seconds)

----------------------------------------------------------------------------
(* The event calls as a state machine: the tables grow by appended rows     *)
(* (timestamps advance per sensor), a call is answered, the caller takes    *)
(* the answer.                                                              *)

DoorSensors == SensorsOfType("door")
MotionSensors == SensorsOfType("motion")

\* a row may be appended for s at t: later than every stored row of s
Advances(table, s, t) == \A r \in RowsOf(table, s) : r.timestamp < t

Row(s, t, v) == [sensor_id |-> s, timestamp |-> t, value |-> v]

Init ==
    /\ door_readings = {}
    /\ motion_readings = {}
    /\ environmental_readings = {}
    /\ air_quality_readings = {}
    /\ call = Idle
    /\ ret = <<>>

EventRows == Cardinality(door_readings) + Cardinality(motion_readings)

InsertDoorReading ==
    /\ call = Idle
    /\ EventRows < MaxEventRows
    /\ \E s \in DoorSensors, t \in EventTimes, v \in BOOLEAN :
          /\ Advances(door_readings, s, t)
          /\ door_readings' = door_readings \cup {Row(s, t, v)}
    /\ UNCHANGED <<motion_readings, environmental_readings, air_quality_readings, call, ret>>

InsertMotionReading ==
    /\ call = Idle
    /\ EventRows < MaxEventRows
    /\ \E s \in MotionSensors, t \in EventTimes, v \in BOOLEAN :
          /\ Advances(motion_readings, s, t)
          /\ motion_readings' = motion_readings \cup {Row(s, t, v)}
    /\ UNCHANGED <<door_readings, environmental_readings, air_quality_readings, call, ret>>

\* the filters the event calls are made with: <<sensor_id, zone_id>>
DoorFilters ==
    {<<None, None>>, <<Some("loading-door"), None>>, <<None, Some("loading")>>,
     <<None, Some("cold-b")>>, <<Some("loading-door-2"), Some("cold-b")>>}

PresenceFilters ==
    {<<None, None>>, <<Some("cold-b-motion"), None>>, <<None, Some("cold-a")>>}

MinDurations == {0, 600}

\* get_door_events deleting the readings it has turned into events
CallDoorEvents_Consume ==
    /\ call = Idle
    /\ \E w \in EventWindows, f \in DoorFilters :
          /\ call' = [op |-> "get_door_events", start |-> w[1], end |-> w[2],
                      sensor_id |-> f[1], zone_id |-> f[2]]
          /\ ret' = get_door_events(door_readings, w[1], w[2], f[1], f[2])
          /\ door_readings' = door_readings \ InWindow(door_readings, w[1], w[2])
    /\ UNCHANGED <<motion_readings, environmental_readings, air_quality_readings>>

CallDoorEvents ==
    /\ call = Idle
    /\ \E w \in EventWindows, f \in DoorFilters :
          /\ call' = [op |-> "get_door_events", start |-> w[1], end |-> w[2],
                      sensor_id |-> f[1], zone_id |-> f[2]]
          /\ ret' = get_door_events(door_readings, w[1], w[2], f[1], f[2])
    /\ UNCHANGED tables

CallPresenceEvents ==
    /\ call = Idle
    /\ \E w \in EventWindows, f \in PresenceFilters, m \in MinDurations :
          /\ call' = [op |-> "get_presence_events", start |-> w[1], end |-> w[2],
                      sensor_id |-> f[1], zone_id |-> f[2], min_duration_seconds |-> m]
          /\ ret' = get_presence_events(motion_readings, w[1], w[2], f[1], f[2], m)
    /\ UNCHANGED tables

\* the caller has the answer; the next call starts from the tables alone
Return ==
    /\ call # Idle
    /\ call' = Idle
    /\ ret' = <<>>
    /\ UNCHANGED tables

NextEvents ==
    \/ InsertDoorReading
    \/ InsertMotionReading
    \/ CallDoorEvents
    \/ CallPresenceEvents
    \/ Return

SpecEvents == Init /\ [][NextEvents]_vars

----------------------------------------------------------------------------
(* The runs of true samples and the events they call for, stated from the   *)
(* stored samples alone.                                                   *)

IsDoorCall == call.op = "get_door_events"
IsPresenceCall == call.op = "get_presence_events"
IsEventCall == IsDoorCall \/ IsPresenceCall

\* the sensors the call's filter selects
SelectedSensors ==
    IF IsDoorCall
    THEN IF call.sensor_id # None THEN {call.sensor_id[1]} \cap DoorSensors
         ELSE IF call.zone_id # None
         THEN {x \in DoorSensors : SensorOf(x).zone_id = call.zone_id[1]}
         ELSE DoorSensors
    ELSE IF call.sensor_id # None THEN {call.sensor_id[1]} \cap MotionSensors
         ELSE IF call.zone_id # None
         THEN {x \in MotionSensors : SensorOf(x).zone_id = call.zone_id[1]}
         ELSE MotionSensors

\* the in-window samples of sensor x in the table the call reads
Samples(x) ==
    InWindow(RowsOf(IF IsDoorCall THEN door_readings ELSE motion_readings, x),
             call.start, call.end)

SampleTimes(x) == {r.timestamp : r \in Samples(x)}

StateAt(x, t) == (CHOOSE r \in Samples(x) : r.timestamp = t).value

MaxOf(S) == CHOOSE m \in S : \A o \in S : o <= m
MinOf(S) == CHOOSE m \in S : \A o \in S : m <= o

\* t is the first sample of a maximal run of true samples of x
RunStart(x, t) ==
    /\ t \in SampleTimes(x)
    /\ StateAt(x, t)
    /\ LET earlier == {u \in SampleTimes(x) : u < t}
       IN  earlier # {} => ~StateAt(x, MaxOf(earlier))

\* the false samples of x after t
FalseAfter(x, t) == {u \in SampleTimes(x) : u > t /\ ~StateAt(x, u)}

\* the events of sensor x in the answer, the time fields named uniformly
EventsOf(x) ==
    LET mine == SelectSeq(ret, LAMBDA e : e.sensor_id = x)
    IN  [i \in 1..Len(mine) |->
            IF IsDoorCall
            THEN [open |-> mine[i].opened_at, close |-> mine[i].closed_at,
                  duration_seconds |-> mine[i].duration_seconds]
            ELSE [open |-> mine[i].started_at, close |-> mine[i].ended_at,
                  duration_seconds |-> mine[i].duration_seconds]]

Range(f) == {f[i] : i \in DOMAIN f}

\* the closed events the runs of x call for
ExpectedClosed(x) ==
    {[open |-> t, close |-> Some(MinOf(FalseAfter(x, t))),
      duration_seconds |-> (MinOf(FalseAfter(x, t)) - t) \div 1000] :
        t \in {u \in SampleTimes(x) : RunStart(x, u) /\ FalseAfter(x, u) # {}}}

\* the open-ended event the last run of x calls for, when its last sample is true
LastIsTrue(x) == SampleTimes(x) # {} /\ StateAt(x, MaxOf(SampleTimes(x)))

LastRunStart(x) == MaxOf({u \in SampleTimes(x) : RunStart(x, u)})

ExpectedOpen(x) ==
    [open |-> LastRunStart(x), close |-> None,
     duration_seconds |-> (call.end - LastRunStart(x)) \div 1000]

\* how often event e occurs among the events of x
Occurrences(x, e) == Cardinality({i \in DOMAIN EventsOf(x) : EventsOf(x)[i] = e})

\* C1: for each door sensor the closed events of the answer are exactly one
\* per maximal run of open samples that a closed sample follows, opened at
\* the first sample of the run, closed at the first closed sample after it,
\* lasting the whole seconds between the two.
C1_ClosedEventPerRun ==
    IsDoorCall =>
        \A x \in SelectedSensors :
            LET closed == {e \in Range(EventsOf(x)) : e.close # None}
            IN  /\ closed = ExpectedClosed(x)
                /\ \A e \in closed : Occurrences(x, e) = 1

\* a run with a repeated open sample inside it was closed into an event
C1_Witness ==
    /\ IsDoorCall
    /\ \E x \in SelectedSensors : \E e \in Range(EventsOf(x)) :
          /\ e.close # None
          /\ \E u \in SampleTimes(x) : e.open < u /\ u < e.close[1]

\* the open-ended events of x in the answer
OpenEventsOf(x) == SelectSeq(EventsOf(x), LAMBDA e : e.close = None)

ExactlyTheOpenEvent(x) == OpenEventsOf(x) = <<ExpectedOpen(x)>>

\* C2 as stated: every selected sensor whose last in-window sample is true
\* has exactly one open-ended event in the answer of either call, opened at
\* the start of its last run and lasting the whole seconds up to the query end.
C2_Original ==
    IsEventCall => \A x \in SelectedSensors : LastIsTrue(x) => ExactlyTheOpenEvent(x)

\* C2 as amended: get_door_events always returns that open-ended event;
\* get_presence_events returns it when its duration is at least
\* min_duration_seconds and returns no open-ended event of that sensor
\* otherwise.  This holds for every sensor, not only the last one walked.
C2_RightCensored ==
    /\ IsDoorCall => \A x \in SelectedSensors : LastIsTrue(x) => ExactlyTheOpenEvent(x)
    /\ IsPresenceCall =>
          \A x \in SelectedSensors :
              LastIsTrue(x) =>
                  IF ExpectedOpen(x).duration_seconds >= call.min_duration_seconds
                  THEN ExactlyTheOpenEvent(x)
                  ELSE OpenEventsOf(x) = <<>>

\* two sensors were walked and the first of them ended open
C2_Witness ==
    /\ IsEventCall
    /\ \E x, y \in SelectedSensors :
          /\ Rank(x) < Rank(y)
          /\ SampleTimes(y) # {}
          /\ LastIsTrue(x)
          /\ ExactlyTheOpenEvent(x)

\* the first in-window sample of x is true
FirstIsTrue(x) == SampleTimes(x) # {} /\ StateAt(x, MinOf(SampleTimes(x)))

\* the marker of the walk right after the first in-window sample of x
MarkerAfterFirst(x) ==
    IF IsDoorCall
    THEN LET readings == DoorQuery(door_readings, call.start, call.end, call.sensor_id,
                                   call.zone_id)
             n == MinOf({i \in 1..Len(readings) : readings[i].sensor_id = x})
         IN  DoorWalk(readings, n, call.end).current_event_start
    ELSE LET rows == PresenceQuery(motion_readings, call.start, call.end, call.sensor_id,
                                   call.zone_id)
             n == MinOf({i \in 1..Len(rows) : rows[i].sensor_id = x})
         IN  PresenceWalk(rows, n, call.end, call.min_duration_seconds).current_event_start

\* the event a leading run of x closed by a false sample calls for
LeadingClosed(x) ==
    LET t0 == MinOf(SampleTimes(x))
        t1 == MinOf(FalseAfter(x, t0))
    IN  [open |-> t0, close |-> Some(t1), duration_seconds |-> (t1 - t0) \div 1000]

\* C3 as stated: when the first in-window sample of a sensor is true the
\* marker is opened at that sample's timestamp, and when a false sample
\* follows the answer of either call holds the event closed at it.
C3_Original ==
    IsEventCall =>
        \A x \in SelectedSensors :
            FirstIsTrue(x) =>
                /\ MarkerAfterFirst(x) = Some(MinOf(SampleTimes(x)))
                /\ FalseAfter(x, MinOf(SampleTimes(x))) # {} =>
                       LeadingClosed(x) \in Range(EventsOf(x))

\* C3 as amended: the marker is opened at the first sample's timestamp in
\* both calls; get_door_events always returns the event closed at the first
\* false sample; get_presence_events returns it exactly when its duration is
\* at least min_duration_seconds.
C3_LeftCensored ==
    IsEventCall =>
        \A x \in SelectedSensors :
            FirstIsTrue(x) =>
                /\ MarkerAfterFirst(x) = Some(MinOf(SampleTimes(x)))
                /\ FalseAfter(x, MinOf(SampleTimes(x))) # {} =>
                       (LeadingClosed(x) \in Range(EventsOf(x))
                            <=> (IsPresenceCall =>
                                     LeadingClosed(x).duration_seconds
                                         >= call.min_duration_seconds))

\* the sensor was already true before the window opened, its first sample
\* inside the window is true and the answer holds the event closed later
C3_Witness ==
    /\ IsPresenceCall
    /\ \E x \in SelectedSensors :
          /\ FirstIsTrue(x)
          /\ \E r \in RowsOf(motion_readings, x) : r.timestamp < call.start /\ r.value
          /\ FalseAfter(x, MinOf(SampleTimes(x))) # {}
          /\ LeadingClosed(x) \in Range(EventsOf(x))
          /\ LeadingClosed(x).open > call.start

\* the answer of the same call made for sensor x alone
AloneAnswer(x) ==
    IF IsDoorCall
    THEN get_door_events(door_readings, call.start, call.end, Some(x), None)
    ELSE get_presence_events(motion_readings, call.start, call.end, Some(x), None,
                             call.min_duration_seconds)

\* the answers for the sensors of S alone, one after the other in sensor_id order
RECURSIVE AloneAnswers(_)
AloneAnswers(S) ==
    IF S = {} THEN <<>>
    ELSE LET x == CHOOSE a \in S : \A b \in S : Rank(a) <= Rank(b)
         IN  AloneAnswer(x) \o AloneAnswers(S \ {x})

\* C4: the answer of a call without a sensor_id filter (a zone filter or no
\* filter) is the answers for each selected sensor alone, one after the
\* other in sensor_id order, and every event opens and closes at samples of
\* the sensor it names.
C4_SensorsIndependent ==
    (IsEventCall /\ call.sensor_id = None) =>
        /\ ret = AloneAnswers(SelectedSensors)
        /\ \A x \in SensorIds : \A e \in Range(EventsOf(x)) :
              /\ x \in SelectedSensors
              /\ e.open \in SampleTimes(x) /\ StateAt(x, e.open)
              /\ e.close # None => (e.close[1] \in SampleTimes(x) /\ ~StateAt(x, e.close[1]))

\* two sensors with interleaved samples each produced an event
C4_Witness ==
    /\ IsEventCall /\ call.sensor_id = None
    /\ \E x, y \in SelectedSensors :
          /\ x # y
          /\ EventsOf(x) # <<>> /\ EventsOf(y) # <<>>
          /\ \E t, v \in SampleTimes(x) : \E u \in SampleTimes(y) : t < u /\ u < v

\* C5: get_presence_events returns exactly the reconstructed presence events
\* (those of the same call with min_duration_seconds = 0), in their order,
\* whose duration_seconds is at least min_duration_seconds; open-ended events
\* are filtered by their window-bounded duration like the others.
C5_MinDurationFilter ==
    IsPresenceCall =>
        ret = SelectSeq(get_presence_events(motion_readings, call.start, call.end,
                                            call.sensor_id, call.zone_id, 0),
                        LAMBDA e : e.duration_seconds >= call.min_duration_seconds)

\* an event of exactly the minimum was kept and an open-ended event shorter
\* than the minimum was dropped
C5_Witness ==
    /\ IsPresenceCall
    /\ call.min_duration_seconds > 0
    /\ \E e \in Range(ret) : e.duration_seconds = call.min_duration_seconds
    /\ \E x \in SelectedSensors :
          /\ LastIsTrue(x)
          /\ ExpectedOpen(x).duration_seconds < call.min_duration_seconds
          /\ OpenEventsOf(x) = <<>>

----------------------------------------------------------------------------
(* compute_status *)

\* compute_status with thresholds that are reached rather than exceeded
compute_status_AtLeast(value, warning_threshold, critical_threshold) ==
    IF warning_threshold = None THEN [status |-> "normal", status_text |-> "Normal"]
    ELSE LET is_warning == value >= warning_threshold[1]
             is_critical == critical_threshold # None /\ value >= critical_threshold[1]
         IN  IF is_critical THEN [status |-> "critical", status_text |-> "Critical"]
             ELSE IF is_warning
             THEN IF warning_threshold[1] < 0
                  THEN [status |-> "warning", status_text |-> "Warning - above target"]
                  ELSE [status |-> "warning", status_text |-> "Warning"]
             ELSE [status |-> "normal", status_text |-> "Normal"]

\* the pair (status, status_text); the text that quotes the threshold is
\* abbreviated to "Warning - above target"
compute_status(value, warning_threshold, critical_threshold) ==
    IF warning_threshold = None THEN [status |-> "normal", status_text |-> "Normal"]
    ELSE LET is_warning == value > warning_threshold[1]
             is_critical == critical_threshold # None /\ value > critical_threshold[1]
         IN  IF is_critical THEN [status |-> "critical", status_text |-> "Critical"]
             ELSE IF is_warning
             THEN IF warning_threshold[1] < 0
                  THEN [status |-> "warning", status_text |-> "Warning - above target"]
                  ELSE [status |-> "warning", status_text |-> "Warning"]
             ELSE [status |-> "normal", status_text |-> "Normal"]

\* values and thresholds the classification is tried on, in tenths
StatusValues == {-181, -180, -179, -101, -100, -99, 0, 250, 251, 300, 301}
StatusThresholds == {None, Some(-180), Some(-100), Some(250), Some(300)}

CallComputeStatus ==
    /\ call = Idle
    /\ \E v \in StatusValues, w \in StatusThresholds, c \in StatusThresholds :
          /\ call' = [op |-> "compute_status", value |-> v, warning_threshold |-> w,
                      critical_threshold |-> c]
          /\ ret' = compute_status(v, w, c)
    /\ UNCHANGED tables

NextStatus ==
    \/ CallComputeStatus
    \/ Return

SpecStatus == Init /\ [][NextStatus]_vars

IsStatusCall == call.op = "compute_status"

\* C7: the status is "normal" without a warning threshold whatever the
\* critical threshold; otherwise "critical" when a critical threshold is set
\* and the value is strictly greater; otherwise "warning" when the value is
\* strictly greater than the warning threshold; otherwise "normal".  With
\* warning -18.0, -17.9 is "warning" and -18.0 is "normal"; with critical
\* -10.0, -9.9 is "critical".
C7_StrictGreaterThan ==
    IsStatusCall =>
        LET v == call.value
            w == call.warning_threshold
            c == call.critical_threshold
        IN  /\ w = None => ret.status = "normal"
            /\ (w # None /\ c # None /\ v > c[1]) => ret.status = "critical"
            /\ (w # None /\ (c = None \/ v <= c[1]) /\ v > w[1]) => ret.status = "warning"
            /\ (w # None /\ (c = None \/ v <= c[1]) /\ v <= w[1]) => ret.status = "normal"
            /\ (w = Some(-180) /\ c = Some(-100) /\ v = -179) => ret.status = "warning"
            /\ (w = Some(-180) /\ v = -180) => ret.status = "normal"
            /\ (w # None /\ c = Some(-100) /\ v = -99) => ret.status = "critical"

\* a value equal to the cold-room warning threshold was classified normal
C7_Witness ==
    /\ IsStatusCall
    /\ call.warning_threshold = Some(-180)
    /\ call.critical_threshold = Some(-100)
    /\ call.value = -180
    /\ ret.status = "normal"

----------------------------------------------------------------------------
(* Sensor type registry *)

\* per type tag: the reading table, the unit, whether a secondary column
\* exists, the boolean formatter (the two texts) and supports_aggregation
SENSOR_TYPE_REGISTRY ==
    [t \in {"environmental", "air_quality", "door", "motion"} |->
        CASE t = "environmental" ->
                 [model |-> "environmental_readings", unit |-> "degC", secondary_column |-> TRUE,
                  format_value |-> None, supports_aggregation |-> TRUE]
          [] t = "air_quality" ->
                 [model |-> "air_quality_readings", unit |-> "ppm", secondary_column |-> FALSE,
                  format_value |-> None, supports_aggregation |-> TRUE]
          [] t = "door" ->
                 [model |-> "door_readings", unit |-> "events", secondary_column |-> FALSE,
                  format_value |-> Some(<<"Open", "Closed">>),
                  supports_aggregation |-> FALSE]
          [] t = "motion" ->
                 [model |-> "motion_readings", unit |-> "events", secondary_column |-> FALSE,
                  format_value |-> Some(<<"Motion detected", "No motion">>),
                  supports_aggregation |-> FALSE]]

\* SENSOR_TYPE_REGISTRY.get(sensor_type) is not None
Registered(sensor_type) == sensor_type \in DOMAIN SENSOR_TYPE_REGISTRY

\* the rows of a reading model
TableRows(model) ==
    CASE model = "environmental_readings" -> environmental_readings
      [] model = "air_quality_readings" -> air_quality_readings
      [] model = "door_readings" -> door_readings
      [] model = "motion_readings" -> motion_readings

\* float(value) of a value column: a boolean becomes 0.0 or 1.0
ValueAsFloat(config, v) ==
    IF config.supports_aggregation THEN v ELSE IF v THEN 10 ELSE 0

----------------------------------------------------------------------------
(* Arithmetic on tenths *)

Hour == 60 * 60 * 1000

\* strftime("%Y-%m-%d %H", timestamp): the calendar hour of a timestamp
HourBucket(timestamp) == timestamp \div Hour

RECURSIVE SumOf(_)
SumOf(S) ==
    IF S = {} THEN 0
    ELSE LET r == CHOOSE x \in S : TRUE IN r.value + SumOf(S \ {r})

\* n / d rounded to the nearest integer, halves to the even neighbour (d > 0)
RoundDiv(n, d) ==
    LET q == n \div d
        r == n % d
    IN  IF 2 * r < d THEN q
        ELSE IF 2 * r > d THEN q + 1
        ELSE IF q % 2 = 0 THEN q ELSE q + 1

\* round(n / d, precision) for n / d in tenths and precision 1 or 0.  The
\* quotient is taken exactly; the binary representation of the float is not
\* modelled.
RoundTo(n, d, precision) ==
    IF precision = 1 THEN RoundDiv(n, d) ELSE 10 * RoundDiv(n, 10 * d)

\* int(x) of a float x given in tenths: truncation toward zero
IntOf(x) == IF x >= 0 THEN x \div 10 ELSE -((-x) \div 10)

----------------------------------------------------------------------------
(* Sensor summary builder *)

TREND_HOURS == 24

\* sensors_by_type[t], as sensor ids
TypeGroup(sensors, t) == {s.id : s \in {x \in sensors : x.sensor_type = t}}

\* the row of sensor sid with row_number() = 1 over timestamp desc
LatestRow(table, sid) ==
    CHOOSE r \in RowsOf(table, sid) : \A o \in RowsOf(table, sid) : o.timestamp <= r.timestamp

\* _get_latest_readings_batch giving a sensor without rows a reading of 0.0
_get_latest_readings_batch_Default(sensors) ==
    [sid \in {s.id : s \in {x \in sensors : Registered(x.sensor_type)}} |->
        LET config == SENSOR_TYPE_REGISTRY[(CHOOSE s \in sensors : s.id = sid).sensor_type]
        IN  IF RowsOf(TableRows(config.model), sid) = {}
            THEN [value |-> 0, secondary_value |-> None, timestamp |-> 0]
            ELSE LET row == LatestRow(TableRows(config.model), sid)
                 IN  [value |-> ValueAsFloat(config, row.value),
                      secondary_value |->
                          IF config.secondary_column THEN Some(row.humidity) ELSE None,
                      timestamp |-> row.timestamp]]

\* sensor_id -> (value, secondary_value, timestamp) for the sensors of a
\* registered type that have at least one row
_get_latest_readings_batch(sensors) ==
    LET found == {s \in sensors :
                     /\ Registered(s.sensor_type)
                     /\ RowsOf(TableRows(SENSOR_TYPE_REGISTRY[s.sensor_type].model), s.id) # {}}
    IN  [sid \in {s.id : s \in found} |->
            LET config == SENSOR_TYPE_REGISTRY[(CHOOSE s \in sensors : s.id = sid).sensor_type]
                row == LatestRow(TableRows(config.model), sid)
            IN  [value |-> ValueAsFloat(config, row.value),
                 secondary_value |->
                     IF config.secondary_column THEN Some(row.humidity) ELSE None,
                 timestamp |-> row.timestamp]]

\* the rows the batched 24h queries of a type group read: those of the
\* group's sensors from 24 hours before the earliest end time of the group
BatchRows(config, sensor_ids, end_times) ==
    LET min_end == MinOf({end_times[g] : g \in sensor_ids})
        start_time == min_end - TREND_HOURS * Hour
    IN  {r \in TableRows(config.model) :
            r.sensor_id \in sensor_ids /\ r.timestamp >= start_time}

\* avg(value) of numeric rows rounded to one decimal, sum(cast(value as
\* integer)) of boolean rows as a float
HourlyValue(config, group) ==
    IF config.supports_aggregation THEN RoundDiv(SumOf(group), Cardinality(group))
    ELSE 10 * Cardinality({r \in group : r.value})

\* _get_24h_trends_batch listing only the hours that have samples
_get_24h_trends_batch_Omit(sensors, end_times) ==
    [sid \in {s.id : s \in sensors} |->
        LET sensor == CHOOSE s \in sensors : s.id = sid
        IN  IF ~Registered(sensor.sensor_type) THEN <<>>
            ELSE LET config == SENSOR_TYPE_REGISTRY[sensor.sensor_type]
                     rows == BatchRows(config, TypeGroup(sensors, sensor.sensor_type),
                                       end_times)
                     sensor_start == end_times[sid] - TREND_HOURS * Hour
                     groups == [i \in 1..TREND_HOURS |->
                                   {r \in rows :
                                       /\ r.sensor_id = sid
                                       /\ HourBucket(r.timestamp)
                                              = HourBucket(sensor_start + (i - 1) * Hour)}]
                     filled == SelectSeq(groups, LAMBDA g : g # {})
                 IN  [i \in 1..Len(filled) |-> HourlyValue(config, filled[i])]]

\* sensor_id -> the 24 hourly values ending at the sensor's end time
_get_24h_trends_batch(sensors, end_times) ==
    [sid \in {s.id : s \in sensors} |->
        LET sensor == CHOOSE s \in sensors : s.id = sid
        IN  IF ~Registered(sensor.sensor_type) THEN [i \in 1..TREND_HOURS |-> 0]
            ELSE LET config == SENSOR_TYPE_REGISTRY[sensor.sensor_type]
                     rows == BatchRows(config, TypeGroup(sensors, sensor.sensor_type),
                                       end_times)
                     sensor_start == end_times[sid] - TREND_HOURS * Hour
                 IN  [i \in 1..TREND_HOURS |->
                         LET bucket == HourBucket(sensor_start + (i - 1) * Hour)
                             group == {r \in rows : /\ r.sensor_id = sid
                                                    /\ HourBucket(r.timestamp) = bucket}
                         IN  IF group = {} THEN 0 ELSE HourlyValue(config, group)]]

SensorStats(min, max, avg, unit) == [min |-> min, max |-> max, avg |-> avg, unit |-> unit]

\* the stats of a door or motion sensor, all zero
EventStats_Zero == SensorStats(0, 0, 0, "events")

\* SensorStats(min=0, max=1, avg=0.5, unit="events") of a door or motion
\* sensor
EventStats == SensorStats(0, 10, 5, "events")

\* sensor_id -> SensorStats over the rows of the batched query
_get_24h_stats_batch(sensors, end_times) ==
    [sid \in {s.id : s \in {x \in sensors : Registered(x.sensor_type)}} |->
        LET sensor == CHOOSE s \in sensors : s.id = sid
            config == SENSOR_TYPE_REGISTRY[sensor.sensor_type]
        IN  IF ~config.supports_aggregation THEN EventStats
            ELSE LET rows == {r \in BatchRows(config,
                                              TypeGroup(sensors, sensor.sensor_type),
                                              end_times) : r.sensor_id = sid}
                     values == {r.value : r \in rows}
                     precision == IF config.unit = "degC" THEN 1 ELSE 0
                 IN  IF rows = {} THEN SensorStats(0, 0, 0, config.unit)
                     ELSE SensorStats(RoundTo(MinOf(values), 1, precision),
                                      RoundTo(MaxOf(values), 1, precision),
                                      RoundTo(SumOf(rows), Cardinality(rows), precision),
                                      config.unit)]

\* the formatted value, as the sequence of its parts
format_reading_value(config, value) ==
    IF config.format_value # None
    THEN IF value # 0 THEN <<config.format_value[1][1]>> ELSE <<config.format_value[1][2]>>
    ELSE IF config.unit = "degC" THEN <<value, "degC">>
    ELSE IF config.unit = "ppm" THEN <<IntOf(value)>>
    ELSE <<value>>

\* the secondary unit, as the sequence of its parts (None is <<>>)
format_reading_unit(config, secondary_value) ==
    IF config.secondary_column /\ secondary_value # None
    THEN <<"/", IntOf(secondary_value[1]), "%">>
    ELSE IF config.unit = "ppm" THEN <<"ppm">>
    ELSE None

\* the SensorConfig of one sensor (the label, a column copied through, is
\* left out)
_build_sensor_config(sensor, zone, latest, trend, stats) ==
    IF ~Registered(sensor.sensor_type) THEN [error |-> "ValueError"]
    ELSE LET config == SENSOR_TYPE_REGISTRY[sensor.sensor_type]
             st == compute_status(latest.value, sensor.warning_threshold,
                                  sensor.critical_threshold)
         IN  [id |-> sensor.id,
              sensor_type |-> sensor.sensor_type,
              zone |-> zone.name,
              reading |->
                  [value |-> format_reading_value(config, latest.value),
                   unit |-> format_reading_unit(config, latest.secondary_value),
                   status |-> st.status,
                   status_text |-> st.status_text,
                   raw_values |->
                       IF sensor.sensor_type = "door"
                       THEN Some([isOpen |-> latest.value # 0]) ELSE None],
              trend |-> trend,
              stats |-> stats,
              thresholds |->
                  IF sensor.warning_threshold # None \/ sensor.critical_threshold # None
                  THEN Some([warning |-> sensor.warning_threshold,
                             critical |-> sensor.critical_threshold])
                  ELSE None]

\* select(Sensor, Zone).join(Zone, Sensor.zone_id == Zone.id)
SensorJoinZone == {s \in Sensor : s.zone_id \in ZoneIds}

ZoneOfSensor(sensor) == CHOOSE z \in Zone : z.id = sensor.zone_id

\* the sensors of S as a list; the rows come back in no stated order and
\* are listed here by id
RECURSIVE SensorList(_)
SensorList(S) ==
    IF S = {} THEN <<>>
    ELSE LET s == CHOOSE a \in S : \A b \in S : Rank(a.id) <= Rank(b.id)
         IN  <<s>> \o SensorList(S \ {s})

\* stats.get(sensor.id, SensorStats(min=0, max=0, avg=0, unit=""))
StatsOrDefault(stats, sid) ==
    IF sid \in DOMAIN stats THEN stats[sid] ELSE SensorStats(0, 0, 0, "")

\* the body get_all_sensors and get_sensors_by_zone share: the batched
\* fetches for the selected sensors and one record per sensor with readings
BuildSensorConfigs(sensors) ==
    IF sensors = {} THEN <<>>
    ELSE LET latest_readings == _get_latest_readings_batch(sensors)
             sensors_with_readings == {s \in sensors : s.id \in DOMAIN latest_readings}
             end_times == [sid \in DOMAIN latest_readings |-> latest_readings[sid].timestamp]
             trends == _get_24h_trends_batch(sensors_with_readings, end_times)
             stats == _get_24h_stats_batch(sensors_with_readings, end_times)
             list == SensorList(sensors_with_readings)
         IN  IF sensors_with_readings = {} THEN <<>>
             ELSE [i \in 1..Len(list) |->
                      _build_sensor_config(list[i], ZoneOfSensor(list[i]),
                                           latest_readings[list[i].id],
                                           trends[list[i].id],
                                           StatsOrDefault(stats, list[i].id))]

get_all_sensors == BuildSensorConfigs(SensorJoinZone)

\* None, or the record of the one sensor
get_sensor_by_id(sensor_id) ==
    LET row == {s \in SensorJoinZone : s.id = sensor_id}
    IN  IF row = {} THEN None
        ELSE LET sensor == CHOOSE s \in row : TRUE
                 latest_readings == _get_latest_readings_batch(row)
             IN  IF sensor.id \notin DOMAIN latest_readings THEN None
                 ELSE LET end_times == [sid \in {sensor.id} |->
                                           latest_readings[sid].timestamp]
                          trends == _get_24h_trends_batch(row, end_times)
                          stats == _get_24h_stats_batch(row, end_times)
                      IN  Some(_build_sensor_config(sensor, ZoneOfSensor(sensor),
                                                    latest_readings[sensor.id],
                                                    trends[sensor.id],
                                                    StatsOrDefault(stats, sensor.id)))

get_sensors_by_zone(zone_id, sensor_type) ==
    BuildSensorConfigs({s \in SensorJoinZone :
                           /\ s.zone_id = zone_id
                           /\ sensor_type # None => s.sensor_type = sensor_type[1]})

\* the type tags of the sensors table
TypeTags == {s.sensor_type : s \in Sensor}

NoQueries == [t \in TypeTags |-> 0]

\* one statement per sensor instead of one per type
QueriesOfLatest_PerSensor(sensors) ==
    [t \in TypeTags |-> IF Registered(t) THEN Cardinality(TypeGroup(sensors, t)) ELSE 0]

\* the statements _get_latest_readings_batch executes, per type tag: one
\* for each registered type that has a sensor in the batch
QueriesOfLatest(sensors) ==
    [t \in TypeTags |-> IF Registered(t) /\ TypeGroup(sensors, t) # {} THEN 1 ELSE 0]

\* the statements _get_24h_trends_batch executes, per type tag
QueriesOfTrends(sensors) ==
    [t \in TypeTags |-> IF Registered(t) /\ TypeGroup(sensors, t) # {} THEN 1 ELSE 0]

\* the statements _get_24h_stats_batch executes, per type tag: none for a
\* type that does not support aggregation
QueriesOfStats(sensors) ==
    [t \in TypeTags |->
        IF /\ Registered(t)
           /\ SENSOR_TYPE_REGISTRY[t].supports_aggregation
           /\ TypeGroup(sensors, t) # {}
        THEN 1 ELSE 0]

\* the statements the body shared by get_all_sensors and get_sensors_by_zone
\* executes: the sensor and zone join, then the batches it gets to
QueriesOfListing(sensors) ==
    LET sensors_with_readings ==
            IF sensors = {} THEN {}
            ELSE {s \in sensors : s.id \in DOMAIN _get_latest_readings_batch(sensors)}
    IN  [join |-> 1,
         latest |-> IF sensors = {} THEN NoQueries ELSE QueriesOfLatest(sensors),
         trends |-> IF sensors_with_readings = {} THEN NoQueries
                    ELSE QueriesOfTrends(sensors_with_readings),
         stats |-> IF sensors_with_readings = {} THEN NoQueries
                   ELSE QueriesOfStats(sensors_with_readings)]

\* the rows of the query of get_sensors_by_zone
SelectedByZone(zone_id, sensor_type) ==
    {s \in SensorJoinZone :
        /\ s.zone_id = zone_id
        /\ sensor_type # None => s.sensor_type = sensor_type[1]}

----------------------------------------------------------------------------
(* The summary calls as a state machine over the environmental and door     *)
(* tables.                                                                  *)

\* timestamps of the summary model: 00:10, 00:40, 23:50 and 24:30 after midnight
TrendTimes == {600000, 2400000, 85800000, 88200000}

\* temperatures and the humidity, in tenths
TempValues == {-180, -90}
Humidities == {685}

\* the sensors that report in the summary model
TrendEnvSensors == {"cold-b-temp", "cold-b-temp-2"}
TrendDoorSensors == {"loading-door"}

TrendRows == Cardinality(environmental_readings) + Cardinality(door_readings)

InsertEnvironmentalReading ==
    /\ call = Idle
    /\ TrendRows < MaxTrendRows
    /\ \E s \in TrendEnvSensors, t \in TrendTimes, v \in TempValues, h \in Humidities :
          /\ Advances(environmental_readings, s, t)
          /\ environmental_readings' =
                 environmental_readings
                     \cup {[sensor_id |-> s, timestamp |-> t, value |-> v, humidity |-> h]}
    /\ UNCHANGED <<door_readings, motion_readings, air_quality_readings, call, ret>>

InsertDoorState ==
    /\ call = Idle
    /\ TrendRows < MaxTrendRows
    /\ \E s \in TrendDoorSensors, t \in TrendTimes, v \in BOOLEAN :
          /\ Advances(door_readings, s, t)
          /\ door_readings' = door_readings \cup {Row(s, t, v)}
    /\ UNCHANGED <<motion_readings, environmental_readings, air_quality_readings, call, ret>>

\* the ids, zones and type filters the summary calls are made with
AskedSensorIds ==
    {"cold-b-temp", "cold-b-temp-2", "loading-door", "loading-aq", "dry-vibration",
     "annex-temp", "no-such-sensor"}
AskedZones == {"cold-b", "loading", "dry"}
AskedTypes == {None, Some("environmental")}

CallGetAllSensors ==
    /\ call = Idle
    /\ call' = [op |-> "get_all_sensors", queries |-> QueriesOfListing(SensorJoinZone)]
    /\ ret' = get_all_sensors
    /\ UNCHANGED tables

CallGetSensorById ==
    /\ call = Idle
    /\ \E id \in AskedSensorIds :
          /\ call' = [op |-> "get_sensor_by_id", sensor_id |-> id]
          /\ ret' = get_sensor_by_id(id)
    /\ UNCHANGED tables

CallGetSensorsByZone ==
    /\ call = Idle
    /\ \E z \in AskedZones, t \in AskedTypes :
          /\ call' = [op |-> "get_sensors_by_zone", zone_id |-> z, sensor_type |-> t,
                      queries |-> QueriesOfListing(SelectedByZone(z, t))]
          /\ ret' = get_sensors_by_zone(z, t)
    /\ UNCHANGED tables

NextSensors ==
    \/ InsertEnvironmentalReading
    \/ InsertDoorState
    \/ CallGetAllSensors
    \/ CallGetSensorById
    \/ CallGetSensorsByZone
    \/ Return

SpecSensors == Init /\ [][NextSensors]_vars

IsAllCall == call.op = "get_all_sensors"
IsByIdCall == call.op = "get_sensor_by_id"
IsByZoneCall == call.op = "get_sensors_by_zone"
IsListCall == IsAllCall \/ IsByZoneCall

\* the value, status, trend and stats of a record
Summary(record) ==
    [value |-> record.reading.value, status |-> record.reading.status,
     trend |-> record.trend, stats |-> record.stats]

\* C8: the record of a sensor inside the answer of get_all_sensors or
\* get_sensors_by_zone has the value, status, trend and stats of the record
\* get_sensor_by_id returns for that sensor on the same tables.
C8_BatchEqualsSingle ==
    IsListCall =>
        \A i \in DOMAIN ret :
            /\ get_sensor_by_id(ret[i].id) # None
            /\ Summary(get_sensor_by_id(ret[i].id)[1]) = Summary(ret[i])

\* the stored readings of a sensor: the rows of its type's table
StoredReadings(sensor) ==
    IF Registered(sensor.sensor_type)
    THEN RowsOf(TableRows(SENSOR_TYPE_REGISTRY[sensor.sensor_type].model), sensor.id)
    ELSE {}

\* the sensors a listing owes a record: at least one reading, a registered
\* type and an existing zone
Reporting ==
    {s \in Sensor : StoredReadings(s) # {} /\ Registered(s.sensor_type)
                        /\ s.zone_id \in ZoneIds}

\* the ids of the records of a listing, in order
ListedIds == [i \in DOMAIN ret |-> ret[i].id]

NoRepeats(seq) == \A i, j \in DOMAIN seq : seq[i] = seq[j] => i = j

\* C9: get_all_sensors lists exactly the sensors with at least one reading
\* (of a registered type, in an existing zone), each once; get_sensors_by_zone
\* lists exactly those of them in the zone and of the asked type, each once;
\* get_sensor_by_id of a sensor without readings returns null.
C9_MissingDataPolicy ==
    /\ IsAllCall =>
          /\ Range(ListedIds) = {s.id : s \in Reporting}
          /\ NoRepeats(ListedIds)
    /\ IsByZoneCall =>
          /\ Range(ListedIds) =
                 {s.id : s \in {x \in Reporting :
                                   /\ x.zone_id = call.zone_id
                                   /\ call.sensor_type # None =>
                                          x.sensor_type = call.sensor_type[1]}}
          /\ NoRepeats(ListedIds)
    /\ IsByIdCall =>
          \A s \in Sensor :
              (s.id = call.sensor_id /\ StoredReadings(s) = {}) => ret = None

\* one environmental sensor of a zone has readings and is listed while the
\* other has none and is left out
C9_Witness ==
    /\ IsListCall
    /\ StoredReadings(SensorOf("cold-b-temp")) = {}
    /\ StoredReadings(SensorOf("cold-b-temp-2")) # {}
    /\ "cold-b-temp-2" \in Range(ListedIds)
    /\ "cold-b-temp" \notin Range(ListedIds)

\* the records of the answer of a summary call
ReturnedRecords ==
    IF IsListCall \/ IsByIdCall THEN Range(ret) ELSE {}

\* the timestamp of the latest stored reading of a sensor
LatestTime(sensor) == MaxOf({r.timestamp : r \in StoredReadings(sensor)})

\* the stored readings of a sensor in the calendar hour that position i of
\* its trend stands for
ReadingsInTrendHour(sensor, i) ==
    {r \in StoredReadings(sensor) :
        HourBucket(r.timestamp)
            = HourBucket(LatestTime(sensor) - 24 * Hour + (i - 1) * Hour)}

\* C10: every record returned by the three summary calls has a trend of
\* exactly 24 entries, with 0.0 at every position whose hour holds no sample
\* of the sensor.
C10_TrendLength ==
    \A rec \in ReturnedRecords :
        /\ Len(rec.trend) = 24
        /\ \A i \in 1..24 :
              ReadingsInTrendHour(SensorOf(rec.id), i) = {} => rec.trend[i] = 0

\* a sensor with samples in a single hour of its last day: one entry of the
\* trend is filled and the other 23 are 0.0
C10_Witness ==
    \E rec \in ReturnedRecords :
        /\ Len(rec.trend) = 24
        /\ Cardinality({i \in 1..24 : rec.trend[i] # 0}) = 1
        /\ Cardinality({i \in 1..24 : ReadingsInTrendHour(SensorOf(rec.id), i) = {}}) = 23

----------------------------------------------------------------------------
(* Readings accessor (app/services/readings_service.py).  A float that the  *)
(* readings accessor or the baseline engine returns is a number of          *)
(* hundredths: both round to at most two places.                            *)

Day == 24 * Hour

\* strftime("%Y-%m-%d", timestamp): the calendar day of a timestamp
DayBucket(timestamp) == timestamp \div Day

\* a float of a table (tenths) as a number of hundredths
Hundredths(v) == 10 * v

ReadingPoint(timestamp, value, humidity) ==
    [timestamp |-> timestamp, value |-> value, humidity |-> humidity]

\* WHERE sensor_id = ... AND timestamp >= start AND timestamp < end
SensorWindow_OpenEnd(model, sensor_id, start, end) ==
    {r \in RowsOf(TableRows(model), sensor_id) :
         r.timestamp >= start /\ r.timestamp < end}

\* WHERE sensor_id = ... AND timestamp >= start AND timestamp <= end
SensorWindow(model, sensor_id, start, end) ==
    InWindow(RowsOf(TableRows(model), sensor_id), start, end)

\* the rows in ascending timestamp order, each as a point: the value column
\* (a boolean as 0.0 or 1.0) and the secondary column where the type has one
_get_raw_readings(sensor, config, start, end) ==
    LET rows == OrderByTime(SensorWindow(config.model, sensor.id, start, end))
    IN  [i \in 1..Len(rows) |->
            ReadingPoint(rows[i].timestamp,
                         Hundredths(ValueAsFloat(config, rows[i].value)),
                         IF config.secondary_column
                         THEN Some(Hundredths(rows[i].humidity))
                         ELSE None)]

\* an ascending sequence of the integers of S
RECURSIVE Ascending(_)
Ascending(S) ==
    IF S = {} THEN <<>> ELSE <<MinOf(S)>> \o Ascending(S \ {MinOf(S)})

\* the bucket of a timestamp: strftime with the hour or the day format
BucketOf(bucket_delta, timestamp) ==
    IF bucket_delta = Hour THEN HourBucket(timestamp) ELSE DayBucket(timestamp)

\* SUM(CAST(value AS INTEGER)) replaced by COUNT(*): every sample counts
BucketValue_CountAll(config, group) ==
    IF config.supports_aggregation
    THEN RoundDiv(10 * SumOf(group), Cardinality(group))
    ELSE 100 * Cardinality(group)

\* round(float(avg_value), 2) of a bucket: AVG(value) for a type that
\* supports aggregation, SUM(CAST(value AS INTEGER)) otherwise.  The value
\* columns are NOT NULL, so the aggregate of a bucket is never NULL.
BucketValue(config, group) ==
    IF config.supports_aggregation
    THEN RoundDiv(10 * SumOf(group), Cardinality(group))
    ELSE 100 * Cardinality({r \in group : r.value})

\* a point for every bucket from the first to the last one with samples
_get_aggregated_readings_ZeroFill(sensor, config, start, end, bucket_delta) ==
    LET rows == SensorWindow(config.model, sensor.id, start, end)
        with == {BucketOf(bucket_delta, r.timestamp) : r \in rows}
        buckets == IF with = {} THEN <<>> ELSE Ascending(MinOf(with)..MaxOf(with))
        group(b) == {r \in rows : BucketOf(bucket_delta, r.timestamp) = b}
    IN  [i \in 1..Len(buckets) |->
            ReadingPoint(buckets[i] * bucket_delta,
                         IF group(buckets[i]) = {} THEN 0
                         ELSE BucketValue(config, group(buckets[i])),
                         None)]

\* GROUP BY bucket ORDER BY bucket over the rows of the window: one point
\* per bucket, stamped with the start of the bucket (strptime of the label)
_get_aggregated_readings(sensor, config, start, end, bucket_delta) ==
    LET rows == SensorWindow(config.model, sensor.id, start, end)
        buckets == Ascending({BucketOf(bucket_delta, r.timestamp) : r \in rows})
        group(b) == {r \in rows : BucketOf(bucket_delta, r.timestamp) = b}
    IN  [i \in 1..Len(buckets) |->
            ReadingPoint(buckets[i] * bucket_delta,
                         BucketValue(config, group(buckets[i])),
                         None)]

ReadingsResponse(sensor_id, sensor_type, interval, readings) ==
    [sensor_id |-> sensor_id, sensor_type |-> sensor_type,
     interval |-> interval, readings |-> readings]

\* an unknown sensor answered with an empty series instead of None
get_sensor_readings_EmptySeries(sensor_id, start, end, interval) ==
    IF sensor_id \notin SensorIds
    THEN Some(ReadingsResponse(sensor_id, "", interval, <<>>))
    ELSE LET sensor == SensorOf(sensor_id)
         IN  IF ~Registered(sensor.sensor_type) THEN None
             ELSE LET config == SENSOR_TYPE_REGISTRY[sensor.sensor_type]
                  IN  Some(ReadingsResponse(
                               sensor_id, sensor.sensor_type, interval,
                               CASE interval = "1h" ->
                                        _get_aggregated_readings(sensor, config, start, end, Hour)
                                 [] interval = "1d" ->
                                        _get_aggregated_readings(sensor, config, start, end, Day)
                                 [] OTHER -> _get_raw_readings(sensor, config, start, end)))

get_sensor_readings(sensor_id, start, end, interval) ==
    IF sensor_id \notin SensorIds THEN None
    ELSE LET sensor == SensorOf(sensor_id)
         IN  IF ~Registered(sensor.sensor_type) THEN None
             ELSE LET config == SENSOR_TYPE_REGISTRY[sensor.sensor_type]
                      readings ==
                          CASE interval = "1h" ->
                                   _get_aggregated_readings(sensor, config, start, end, Hour)
                            [] interval = "1d" ->
                                   _get_aggregated_readings(sensor, config, start, end, Day)
                            [] OTHER -> _get_raw_readings(sensor, config, start, end)
                  IN  Some(ReadingsResponse(sensor_id, sensor.sensor_type,
                                            interval, readings))

----------------------------------------------------------------------------
(* The readings accessor as a state machine: samples are stored, a call is  *)
(* answered from the tables, the caller takes the answer.                   *)

\* rows in the tables read by the readings accessor and the baseline engine
MaxReadingRows == 3

\* timestamps of the samples: 00:10, 00:40, 02:20 and 24:30 after midnight
ReadingTimes == {600000, 2400000, 8400000, 88200000}

\* the windows asked for: one around every sample, one that starts and ends
\* on a sample
ReadingWindows == {<<0, 90000000>>, <<2400000, 8400000>>}

\* temperatures, in tenths
ReadingValues == {-180, -175}

ReadingEnvSensors == {"cold-b-temp", "cold-b-temp-2"}
ReadingDoorSensors == {"loading-door"}

ReadingRows ==
    Cardinality(environmental_readings) + Cardinality(door_readings)
        + Cardinality(air_quality_readings)

InsertTemperature ==
    /\ call = Idle
    /\ ReadingRows < MaxReadingRows
    /\ \E s \in ReadingEnvSensors, t \in ReadingTimes, v \in ReadingValues, h \in Humidities :
          /\ Advances(environmental_readings, s, t)
          /\ environmental_readings' =
                 environmental_readings
                     \cup {[sensor_id |-> s, timestamp |-> t, value |-> v, humidity |-> h]}
    /\ UNCHANGED <<door_readings, motion_readings, air_quality_readings, call, ret>>

InsertDoorSample ==
    /\ call = Idle
    /\ ReadingRows < MaxReadingRows
    /\ \E s \in ReadingDoorSensors, t \in ReadingTimes, v \in BOOLEAN :
          /\ Advances(door_readings, s, t)
          /\ door_readings' = door_readings \cup {Row(s, t, v)}
    /\ UNCHANGED <<motion_readings, environmental_readings, air_quality_readings, call, ret>>

AskedReadingIds == {"cold-b-temp", "loading-door", "dry-vibration", "no-such-sensor"}

Intervals == {"raw", "1h", "1d"}

CallGetSensorReadings ==
    /\ call = Idle
    /\ \E id \in AskedReadingIds, w \in ReadingWindows, interval \in Intervals :
          /\ call' = [op |-> "get_sensor_readings", sensor_id |-> id,
                      start |-> w[1], end |-> w[2], interval |-> interval]
          /\ ret' = get_sensor_readings(id, w[1], w[2], interval)
    /\ UNCHANGED tables

NextReadings ==
    \/ InsertTemperature
    \/ InsertDoorSample
    \/ CallGetSensorReadings
    \/ Return

SpecReadings == Init /\ [][NextReadings]_vars

IsReadingsCall == call.op = "get_sensor_readings"

\* the call names a stored sensor of a registered type
OfKnownSensor == call.sensor_id \in SensorIds /\ Registered(SensorOf(call.sensor_id).sensor_type)

\* the stored samples of the sensor of the call with a timestamp from start
\* to end, both included
AskedSamples ==
    {r \in StoredReadings(SensorOf(call.sensor_id)) :
         call.start <= r.timestamp /\ r.timestamp <= call.end}

\* the width of the buckets of the call
BucketWidth == IF call.interval = "1h" THEN Hour ELSE Day

\* the start of the bucket a timestamp falls into
BucketStart(timestamp) == (timestamp \div BucketWidth) * BucketWidth

\* the samples asked for that fall into the bucket starting at b
SamplesOfBucket(b) == {r \in AskedSamples : BucketStart(r.timestamp) = b}

IsBooleanType(sensor_type) == sensor_type \in {"door", "motion"}

StrictlyAscending(points) ==
    \A i, j \in DOMAIN points : i < j => points[i].timestamp < points[j].timestamp

\* C11: an hourly or daily series has a point for every bucket holding a
\* sample of the sensor from the window, no point for any other bucket, and
\* its points are in ascending order of pairwise distinct bucket starts.
C11_NoZeroFill ==
    (IsReadingsCall /\ call.interval \in {"1h", "1d"} /\ OfKnownSensor) =>
        /\ ret # None
        /\ LET points == ret[1].readings
           IN  /\ \A r \in AskedSamples :
                      \E i \in DOMAIN points : points[i].timestamp = BucketStart(r.timestamp)
               /\ \A i \in DOMAIN points : SamplesOfBucket(points[i].timestamp) # {}
               /\ StrictlyAscending(points)

\* an hourly series over samples in the hours 0 and 2: two points, none
\* for hour 1
C11_Witness ==
    /\ IsReadingsCall /\ call.interval = "1h" /\ OfKnownSensor
    /\ {BucketStart(r.timestamp) : r \in AskedSamples} = {0, 2 * Hour}
    /\ ret # None
    /\ Len(ret[1].readings) = 2

Abs(x) == IF x < 0 THEN -x ELSE x

\* v hundredths is the quotient n / d of tenths, exactly
IsQuotient(v, n, d) == v * d = 10 * n

\* v hundredths is n / d of tenths rounded to the nearest hundredth
IsRoundedQuotient(v, n, d) == 2 * Abs(v * d - 10 * n) <= d

\* the value of the point for the bucket starting at b is mean(v, n, d) of
\* the bucket's samples for a numeric type, the count of its true samples
\* for a boolean type
BucketValueIs(point, mean(_, _, _)) ==
    LET group == SamplesOfBucket(point.timestamp)
    IN  IF IsBooleanType(SensorOf(call.sensor_id).sensor_type)
        THEN point.value = 100 * Cardinality({r \in group : r.value = TRUE})
        ELSE mean(point.value, SumOf(group), Cardinality(group))

\* C12 as stated: the value of a bucket of a numeric type is the arithmetic
\* mean of its samples, that of a boolean type the count of its true samples.
C12_Original ==
    (IsReadingsCall /\ call.interval \in {"1h", "1d"} /\ OfKnownSensor /\ ret # None) =>
        \A i \in DOMAIN ret[1].readings : BucketValueIs(ret[1].readings[i], IsQuotient)

\* C12: the value of a bucket of a numeric type is the arithmetic mean of
\* its in-window samples rounded to two decimal places; that of a boolean
\* type is the count of its true samples, 0 when all are false.
C12_BucketValue ==
    (IsReadingsCall /\ call.interval \in {"1h", "1d"} /\ OfKnownSensor /\ ret # None) =>
        \A i \in DOMAIN ret[1].readings :
            BucketValueIs(ret[1].readings[i], IsRoundedQuotient)

\* a daily bucket of three temperatures whose mean has no two-place form
C12_Witness ==
    /\ IsReadingsCall /\ call.interval = "1d" /\ OfKnownSensor
    /\ ~IsBooleanType(SensorOf(call.sensor_id).sensor_type)
    /\ ret # None
    /\ \E i \in DOMAIN ret[1].readings :
          LET group == SamplesOfBucket(ret[1].readings[i].timestamp)
          IN  /\ Cardinality(group) = 3
              /\ (10 * SumOf(group)) % 3 # 0

\* C13: a raw series is exactly the stored samples of the sensor from the
\* window, bounds included, in ascending timestamp order, each value as
\* stored (a boolean as 0.0 or 1.0), tagged with the type of the sensor and
\* the interval asked for.
C13_RawSeries ==
    (IsReadingsCall /\ call.interval = "raw" /\ OfKnownSensor) =>
        /\ ret # None
        /\ ret[1].sensor_id = call.sensor_id
        /\ ret[1].sensor_type = SensorOf(call.sensor_id).sensor_type
        /\ ret[1].interval = call.interval
        /\ LET points == ret[1].readings
           IN  /\ Len(points) = Cardinality(AskedSamples)
               /\ StrictlyAscending(points)
               /\ \A r \in AskedSamples :
                      \E i \in DOMAIN points :
                          /\ points[i].timestamp = r.timestamp
                          /\ points[i].value =
                                 IF IsBooleanType(SensorOf(call.sensor_id).sensor_type)
                                 THEN (IF r.value THEN 100 ELSE 0)
                                 ELSE 10 * r.value

\* a raw series over a window that starts and ends on a sample of the
\* sensor, while another sensor of the table has a sample in the window
C13_Witness ==
    /\ IsReadingsCall /\ call.interval = "raw" /\ OfKnownSensor
    /\ \E r \in AskedSamples : r.timestamp = call.start
    /\ \E r \in AskedSamples : r.timestamp = call.end
    /\ \E r \in environmental_readings :
          /\ r.sensor_id # call.sensor_id
          /\ call.start <= r.timestamp /\ r.timestamp <= call.end
    /\ call.sensor_id = "cold-b-temp"
    /\ Len(ret[1].readings) = 2

----------------------------------------------------------------------------
(* Baseline engine (app/services/baseline_service.py).  The clock           *)
(* (datetime.now()) is an input of each call.                               *)

\* round(n / d, precision) for n / d in tenths and precision 2 or 1, as a
\* number of hundredths
RoundPlaces(n, d, precision) ==
    IF precision = 2 THEN RoundDiv(10 * n, d) ELSE 10 * RoundDiv(n, d)

\* the sum over S of (count * value - sum)^2
RECURSIVE SquaresOf(_, _, _)
SquaresOf(S, count, sum) ==
    IF S = {} THEN 0
    ELSE LET r == CHOOSE x \in S : TRUE
         IN  (count * r.value - sum) * (count * r.value - sum)
                 + SquaresOf(S \ {r}, count, sum)

\* the least s >= from with k * sqrt(n / d) <= s + 1/2
RECURSIVE NearestRoot(_, _, _, _)
NearestRoot(n, d, k, from) ==
    IF 4 * k * k * n <= (2 * from + 1) * (2 * from + 1) * d
    THEN from
    ELSE NearestRoot(n, d, k, from + 1)

\* round(sqrt(n / d), precision) for n / d in tenths squared, as a number of
\* hundredths; a half goes to the even neighbour
RoundRoot(n, d, precision) ==
    LET k == IF precision = 2 THEN 10 ELSE 1
        s == NearestRoot(n, d, k, 0)
        tie == 4 * k * k * n = (2 * s + 1) * (2 * s + 1) * d
        nearest == IF tie /\ s % 2 = 1 THEN s + 1 ELSE s
    IN  IF precision = 2 THEN nearest ELSE 10 * nearest

\* AVG((value - mean)^2) with n - 1 for n: the sample variance
_compute_std_dev_Sample(rows) ==
    LET count == Cardinality(rows)
    IN  IF count < 2 THEN [n |-> 0, d |-> 1]
        ELSE [n |-> SquaresOf(rows, count, SumOf(rows)),
              d |-> count * count * (count - 1)]

\* AVG(POW(value - mean, 2)) over the rows, mean being their AVG(value): the
\* variance n / d, in tenths squared, whose root is returned.  A sum of
\* squares is never negative, so the guard on variance < 0 never fires.
_compute_std_dev(rows) ==
    LET count == Cardinality(rows)
    IN  [n |-> SquaresOf(rows, count, SumOf(rows)), d |-> count * count * count]

SensorBaseline(sensor_id, mean, std_dev, min, max, unit, sample_count, period_hours) ==
    [sensor_id |-> sensor_id, mean |-> mean, std_dev |-> std_dev, min |-> min,
     max |-> max, unit |-> unit, sample_count |-> sample_count,
     period_hours |-> period_hours]

\* the window reaches back one hour whatever hours is
BaselineStart_OneHour(end_time, hours) == end_time - Hour

\* end_time - timedelta(hours=hours)
BaselineStart(end_time, hours) == end_time - hours * Hour

get_sensor_baseline(sensor_id, hours, now) ==
    IF hours <= 0 THEN None
    ELSE IF sensor_id \notin SensorIds THEN None
    ELSE LET sensor == SensorOf(sensor_id)
         IN  IF ~Registered(sensor.sensor_type) THEN None
             ELSE LET config == SENSOR_TYPE_REGISTRY[sensor.sensor_type]
                      end_time == now
                      start_time == BaselineStart(end_time, hours)
                      rows == SensorWindow(config.model, sensor_id, start_time, end_time)
                      count == Cardinality(rows)
                      values == {r.value : r \in rows}
                      variance == _compute_std_dev(rows)
                      precision == IF config.unit = "degC" THEN 2 ELSE 1
                  IN  IF ~config.supports_aggregation THEN None
                      ELSE IF count = 0 THEN None
                      ELSE Some(SensorBaseline(
                               sensor_id,
                               RoundPlaces(SumOf(rows), count, precision),
                               RoundRoot(variance.n, variance.d, precision),
                               RoundPlaces(MinOf(values), 1, precision),
                               RoundPlaces(MaxOf(values), 1, precision),
                               config.unit, count, hours))

HourlyBaseline(hour, mean, std_dev, sample_count) ==
    [hour |-> hour, mean |-> mean, std_dev |-> std_dev, sample_count |-> sample_count]

\* the outcome of a call that may raise
Returned(value) == [raised |-> None, value |-> value]
Raised(exception) == [raised |-> Some(exception), value |-> <<>>]

\* For a type that supports aggregation the second query (lines 175-196)
\* puts a window function, AVG(value) OVER (PARTITION BY hour), inside the
\* argument of the aggregate AVG(POW(..., 2)).  SQLite, the only backend
\* (app/database.py), rejects that statement when it is prepared, with
\* "misuse of window function avg()", whatever the rows are; session.execute
\* raises OperationalError and nothing catches it.
get_hourly_baselines(sensor_id, days, now) ==
    IF days <= 0 THEN Returned(<<>>)
    ELSE IF sensor_id \notin SensorIds THEN Returned(<<>>)
    ELSE LET sensor == SensorOf(sensor_id)
         IN  IF \/ ~Registered(sensor.sensor_type)
                \/ ~SENSOR_TYPE_REGISTRY[sensor.sensor_type].supports_aggregation
             THEN Returned([h \in 1..24 |-> HourlyBaseline(h - 1, 0, 0, 0)])
             ELSE Raised("OperationalError")

----------------------------------------------------------------------------
(* The baseline engine as a state machine. *)

\* CO2 concentrations, in tenths of a ppm
Co2Values == {4000, 4050}

ReadingAqSensors == {"loading-aq"}

InsertCo2 ==
    /\ call = Idle
    /\ ReadingRows < MaxReadingRows
    /\ \E s \in ReadingAqSensors, t \in ReadingTimes, v \in Co2Values :
          /\ Advances(air_quality_readings, s, t)
          /\ air_quality_readings' = air_quality_readings \cup {Row(s, t, v)}
    /\ UNCHANGED <<door_readings, motion_readings, environmental_readings, call, ret>>

AskedBaselineIds ==
    {"cold-b-temp", "loading-aq", "loading-door", "dry-vibration", "no-such-sensor"}

\* the clock of a call: 24:40 and 02:20 after midnight
Clocks == {88800000, 8400000}

AskedHours == {0, 1, 24}
AskedDays == {0, 1}

CallGetSensorBaseline ==
    /\ call = Idle
    /\ \E id \in AskedBaselineIds, hours \in AskedHours, now \in Clocks :
          /\ call' = [op |-> "get_sensor_baseline", sensor_id |-> id,
                      hours |-> hours, now |-> now]
          /\ ret' = get_sensor_baseline(id, hours, now)
    /\ UNCHANGED tables

CallGetHourlyBaselines ==
    /\ call = Idle
    /\ \E id \in AskedBaselineIds, days \in AskedDays, now \in Clocks :
          /\ call' = [op |-> "get_hourly_baselines", sensor_id |-> id,
                      days |-> days, now |-> now]
          /\ ret' = get_hourly_baselines(id, days, now)
    /\ UNCHANGED tables

NextBaseline ==
    \/ InsertTemperature
    \/ InsertCo2
    \/ CallGetSensorBaseline
    \/ CallGetHourlyBaselines
    \/ Return

SpecBaseline == Init /\ [][NextBaseline]_vars

IsBaselineCall == call.op = "get_sensor_baseline"
IsHourlyCall == call.op = "get_hourly_baselines"

\* the type of the sensor of the call supports aggregation
Aggregating ==
    /\ OfKnownSensor
    /\ SensorOf(call.sensor_id).sensor_type \in {"environmental", "air_quality"}

\* the stored samples of the sensor of the call in the trailing window
TrailingSamples(length) ==
    {r \in StoredReadings(SensorOf(call.sensor_id)) :
         call.now - length <= r.timestamp /\ r.timestamp <= call.now}

\* C14: get_sensor_baseline returns null exactly when the sensor is unknown,
\* its type does not support aggregation, the trailing window holds no
\* sample of it, or hours <= 0; otherwise the baseline counts the samples
\* of the sensor in [now - hours, now] and carries hours as period_hours.
C14_NullExactlyWhen ==
    IsBaselineCall =>
        LET null == \/ call.sensor_id \notin SensorIds
                    \/ ~Aggregating
                    \/ call.hours <= 0
                    \/ TrailingSamples(call.hours * Hour) = {}
        IN  /\ (ret = None) <=> null
            /\ ~null => /\ ret[1].sample_count =
                               Cardinality(TrailingSamples(call.hours * Hour))
                        /\ ret[1].period_hours = call.hours
                        /\ ret[1].sensor_id = call.sensor_id

\* a 24 hour baseline whose window starts on a sample, leaves an older
\* sample out and counts two
C14_Witness ==
    /\ IsBaselineCall /\ Aggregating /\ call.hours = 24
    /\ \E r \in TrailingSamples(24 * Hour) : r.timestamp = call.now - 24 * Hour
    /\ \E r \in StoredReadings(SensorOf(call.sensor_id)) : r.timestamp < call.now - 24 * Hour
    /\ ret # None
    /\ ret[1].sample_count = 2

\* the sum over S of value^2
RECURSIVE SumOfSquares(_)
SumOfSquares(S) ==
    IF S = {} THEN 0
    ELSE LET r == CHOOSE x \in S : TRUE IN r.value * r.value + SumOfSquares(S \ {r})

\* v hundredths is sqrt(n / d) of tenths rounded to the nearest multiple of
\* unit hundredths
IsRoundedRoot(v, n, d, unit) ==
    /\ v >= 0
    /\ v % unit = 0
    /\ (2 * v + unit) * (2 * v + unit) * d >= 400 * n
    /\ v > 0 => (2 * v - unit) * (2 * v - unit) * d <= 400 * n

\* v hundredths is n / d of tenths rounded to the nearest multiple of unit
\* hundredths
IsRoundedMean(v, n, d, unit) ==
    /\ v % unit = 0
    /\ 2 * Abs(v * d - 10 * n) <= unit * d

\* the mean, extremes and population standard deviation of the samples S,
\* rounded to multiples of unit hundredths: with c = |S|, the variance
\* mean(x^2) - mean(x)^2 is (c * sum(x^2) - sum(x)^2) / c^2
IsBaselineOf(b, S, unit) ==
    LET c == Cardinality(S)
    IN  /\ IsRoundedMean(b.mean, SumOf(S), c, unit)
        /\ b.min = 10 * MinOf({r.value : r \in S})
        /\ b.max = 10 * MaxOf({r.value : r \in S})
        /\ IsRoundedRoot(b.std_dev, c * SumOfSquares(S) - SumOf(S) * SumOf(S), c * c, unit)
        /\ (\A r, o \in S : r.value = o.value) => b.std_dev = 0

\* the rounding unit of a sensor type, in hundredths: two places for
\* temperatures, one place otherwise
UnitOf(sensor_type) == IF sensor_type = "environmental" THEN 1 ELSE 10

\* C15: the mean, min, max and std_dev of a baseline are, before rounding,
\* the arithmetic mean, the extremes and the population standard deviation
\* of exactly the samples of the sensor with now - hours <= timestamp <= now;
\* std_dev is 0 when the samples are all equal and is never negative.
C15_PopulationStatistics ==
    (IsBaselineCall /\ Aggregating /\ ret # None) =>
        IsBaselineOf(ret[1], TrailingSamples(call.hours * Hour),
                     UnitOf(SensorOf(call.sensor_id).sensor_type))

\* a baseline over three temperatures that are not all equal
C15_Witness ==
    /\ IsBaselineCall /\ Aggregating /\ ret # None
    /\ call.sensor_id = "cold-b-temp"
    /\ ret[1].sample_count = 3
    /\ ret[1].min # ret[1].max
    /\ ret[1].std_dev = 24

HourOfDay(timestamp) == (timestamp \div Hour) % 24

\* C16: for a known sensor and days >= 1 get_hourly_baselines returns 24
\* entries, entry i with hour = i; for an aggregating sensor entry i has the
\* count, mean and population standard deviation of the samples of the
\* trailing window whose hour of day is i, zeros when there are none; for a
\* non-aggregating sensor every entry is zero.
C16_HourlyBaselines ==
    (IsHourlyCall /\ call.sensor_id \in SensorIds /\ call.days >= 1) =>
        /\ ret.raised = None
        /\ Len(ret.value) = 24
        /\ \A i \in 0..23 :
              LET entry == ret.value[i + 1]
                  S == {r \in TrailingSamples(call.days * Day) : HourOfDay(r.timestamp) = i}
              IN  /\ entry.hour = i
                  /\ IF Aggregating /\ S # {}
                     THEN /\ entry.sample_count = Cardinality(S)
                          /\ IsRoundedMean(entry.mean, SumOf(S), Cardinality(S),
                                           UnitOf(SensorOf(call.sensor_id).sensor_type))
                          /\ IsRoundedRoot(entry.std_dev,
                                 Cardinality(S) * SumOfSquares(S) - SumOf(S) * SumOf(S),
                                 Cardinality(S) * Cardinality(S),
                                 UnitOf(SensorOf(call.sensor_id).sensor_type))
                     ELSE entry.mean = 0 /\ entry.std_dev = 0 /\ entry.sample_count = 0

----------------------------------------------------------------------------
(* Statements executed by a listing. *)

\* the sum of the counts of a per-type tally over the tags of T
RECURSIVE TallyOver(_, _)
TallyOver(tally, T) ==
    IF T = {} THEN 0
    ELSE LET t == CHOOSE x \in T : TRUE IN tally[t] + TallyOver(tally, T \ {t})

TotalQueries(queries) ==
    queries.join + TallyOver(queries.latest, TypeTags)
        + TallyOver(queries.trends, TypeTags) + TallyOver(queries.stats, TypeTags)

\* the sensors the listing in progress selects
SensorsOfListing ==
    IF IsAllCall THEN Sensor
    ELSE {s \in Sensor : /\ s.zone_id = call.zone_id
                         /\ call.sensor_type # None => s.sensor_type = call.sensor_type[1]}

\* C17: a listing executes one sensor and zone query and, for each sensor
\* type present among the selected sensors, at most one latest-reading, one
\* trend and one stats query, none for any other type: at most 1 + 3 times
\* the number of registered types, however many sensors are selected.
C17_BoundedQueries ==
    IsListCall =>
        /\ call.queries.join = 1
        /\ \A t \in TypeTags :
              /\ call.queries.latest[t] <= 1
              /\ call.queries.trends[t] <= 1
              /\ call.queries.stats[t] <= 1
              /\ (call.queries.latest[t] + call.queries.trends[t] + call.queries.stats[t] > 0)
                     => \E s \in SensorsOfListing : s.sensor_type = t
        /\ TotalQueries(call.queries) <= 1 + 3 * Cardinality(DOMAIN SENSOR_TYPE_REGISTRY)

\* a zone listing that returns two environmental sensors after one query of
\* each kind for their type
C17_Witness ==
    /\ IsByZoneCall
    /\ Len(ret) = 2
    /\ ret[1].id # ret[2].id
    /\ call.queries.latest["environmental"] = 1
    /\ call.queries.trends["environmental"] = 1
    /\ call.queries.stats["environmental"] = 1
    /\ TotalQueries(call.queries) >= 4

----------------------------------------------------------------------------
(* HTTP routes of the sensors (app/routes/sensors.py). *)

MAX_READINGS_DAYS == 30
MAX_BASELINE_HOURS == 168

\* raise HTTPException(status_code=...); 422 is the answer of the framework
\* to a query parameter outside its declared range
HTTPException(status_code) == [status_code |-> status_code, body |-> None]

\* a returned response_model
Ok(body) == [status_code |-> 200, body |-> Some(body)]

\* GET /api/sensors/{sensor_id}
get_sensor(sensor_id) ==
    LET sensor == get_sensor_by_id(sensor_id)
    IN  IF sensor = None THEN HTTPException(404) ELSE Ok(sensor[1])

\* a datetime query parameter as the framework parses it: naive when the
\* string carries no offset, offset-aware (here always UTC, "...Z") when it
\* does; t is the instant in milliseconds
Naive(t) == [t |-> t, aware |-> FALSE]

Aware(t) == [t |-> t, aware |-> TRUE]

\* an exception that no handler catches: 500 Internal Server Error
InternalServerError == [status_code |-> 500, body |-> None]

\* the window a route works with: end is the naive now when left out, start
\* is 24 hours before end when left out
RouteWindow(start, end, now) ==
    LET end_ == IF end = None THEN Naive(now) ELSE end[1]
        start_ == IF start = None
                  THEN [t |-> end_.t - 24 * Hour, aware |-> end_.aware]
                  ELSE start[1]
    IN  [start |-> start_, end |-> end_]

\* start >= end and end - start raise TypeError between an offset-aware and
\* a naive datetime
Comparable(a, b) == a.aware = b.aware

\* end - start > timedelta(days=days), by whole days and the time of day, so
\* that no number beyond the days of either datetime is formed
LongerThanDays(start, end, days) ==
    LET d == (end \div Day) - (start \div Day) - days
    IN  d >= 1 \/ (d = 0 /\ end % Day > start % Day)

\* what a route handler did: the response it answered with and the service
\* calls it awaited before
RouteRun(response, service_calls) ==
    [response |-> response, service_calls |-> service_calls]

\* the handler of GET /api/sensors/{sensor_id}/readings
get_readings_run(sensor_id, start, end, interval, now) ==
    LET w == RouteWindow(start, end, now)
    IN  IF ~Comparable(w.start, w.end) THEN RouteRun(InternalServerError, <<>>)
        ELSE IF w.start.t >= w.end.t THEN RouteRun(HTTPException(400), <<>>)
        ELSE IF LongerThanDays(w.start.t, w.end.t, MAX_READINGS_DAYS)
             THEN RouteRun(HTTPException(400), <<>>)
        ELSE LET result == get_sensor_readings(sensor_id, w.start.t, w.end.t, interval)
             IN  RouteRun(IF result = None THEN HTTPException(404) ELSE Ok(result[1]),
                          <<[op |-> "get_sensor_readings", start |-> w.start.t,
                             end |-> w.end.t]>>)

\* GET /api/sensors/{sensor_id}/readings
get_readings(sensor_id, start, end, interval, now) ==
    get_readings_run(sensor_id, start, end, interval, now).response

\* GET /api/sensors/{sensor_id}/baseline; hours is optional, 24 when left
\* out, and declared with ge=1, le=168
get_baseline(sensor_id, hours, now) ==
    LET hours_ == IF hours = None THEN 24 ELSE hours[1]
    IN  IF hours_ < 1 \/ hours_ > MAX_BASELINE_HOURS THEN HTTPException(422)
        ELSE LET result == get_sensor_baseline(sensor_id, hours_, now)
             IN  IF result = None THEN HTTPException(404) ELSE Ok(result[1])

----------------------------------------------------------------------------
(* The whole derivation layer as one state machine: readings are stored in  *)
(* the four tables, any service or sensor route is called.                  *)

\* rows in the four tables together
MaxLayerRows == 2

LayerRows ==
    Cardinality(door_readings) + Cardinality(motion_readings)
        + Cardinality(environmental_readings) + Cardinality(air_quality_readings)

StoreReading ==
    /\ LayerRows < MaxLayerRows
    /\ \/ InsertTemperature
       \/ InsertCo2
       \/ InsertDoorReading
       \/ InsertMotionReading

AskedRouteIds == {"cold-b-temp", "dry-vibration", "no-such-sensor"}

\* <<start, end>> of a readings request: both left out, a window around
\* every sample, an end before the start
RouteWindows ==
    {<<None, None>>, <<Some(Naive(0)), Some(Naive(90000000))>>,
     <<Some(Naive(8400000)), Some(Naive(2400000))>>, <<Some(Aware(0)), None>>}

RouteHours == {None, Some(0), Some(24)}

CallGetSensor ==
    /\ call = Idle
    /\ \E id \in AskedRouteIds :
          /\ call' = [op |-> "GET sensor", sensor_id |-> id]
          /\ ret' = get_sensor(id)
    /\ UNCHANGED tables

CallGetReadings ==
    /\ call = Idle
    /\ \E id \in AskedRouteIds, w \in RouteWindows, now \in Clocks :
          /\ call' = [op |-> "GET readings", sensor_id |-> id, start |-> w[1],
                      end |-> w[2], interval |-> "raw", now |-> now]
          /\ ret' = get_readings(id, w[1], w[2], "raw", now)
    /\ UNCHANGED tables

CallGetBaseline ==
    /\ call = Idle
    /\ \E id \in AskedRouteIds, hours \in RouteHours, now \in Clocks :
          /\ call' = [op |-> "GET baseline", sensor_id |-> id, hours |-> hours,
                      now |-> now]
          /\ ret' = get_baseline(id, hours, now)
    /\ UNCHANGED tables

NextLayer ==
    \/ StoreReading
    \/ CallGetSensorReadings
    \/ CallDoorEvents
    \/ CallPresenceEvents
    \/ CallGetSensorBaseline
    \/ CallGetHourlyBaselines
    \/ CallGetAllSensors
    \/ CallGetSensorById
    \/ CallGetSensorsByZone
    \/ CallGetSensor
    \/ CallGetReadings
    \/ CallGetBaseline
    \/ Return

SpecLayer == Init /\ [][NextLayer]_vars

IsSensorRoute == call.op = "GET sensor"
IsReadingsRoute == call.op = "GET readings"
IsBaselineRoute == call.op = "GET baseline"
IsRouteCall == IsSensorRoute \/ IsReadingsRoute \/ IsBaselineRoute

\* the call names one sensor
NamesSensor ==
    \/ IsReadingsCall \/ IsBaselineCall \/ IsHourlyCall \/ IsByIdCall
    \/ IsRouteCall

\* the sensor id of the call is not in the sensors table
OfUnknownSensor == NamesSensor /\ call.sensor_id \notin SensorIds

\* the sensor of the call is stored with a type tag the registry lacks
OfUnregisteredType ==
    /\ NamesSensor
    /\ call.sensor_id \in SensorIds
    /\ SensorOf(call.sensor_id).sensor_type \notin
           {"environmental", "air_quality", "door", "motion"}

\* the services answer an unknown sensor and a sensor of an unregistered
\* type with null (an empty list from get_hourly_baselines for an unknown
\* sensor), and the listings leave a sensor of an unregistered type out
ServicesAnswerNotFound ==
    /\ (OfUnknownSensor /\ (IsReadingsCall \/ IsBaselineCall \/ IsByIdCall)) => ret = None
    /\ (OfUnknownSensor /\ IsHourlyCall) => (ret.raised = None /\ ret.value = <<>>)
    /\ (OfUnregisteredType /\ (IsReadingsCall \/ IsBaselineCall \/ IsByIdCall)) => ret = None
    /\ IsListCall =>
           \A i \in DOMAIN ret :
               SensorOf(ret[i].id).sensor_type \in
                   {"environmental", "air_quality", "door", "motion"}

\* the request of the route call passes the validation made before the lookup:
\* start < end <= start + 30 days for readings, 1 <= hours <= 168 for a
\* baseline
RequestIsValid ==
    CASE IsReadingsRoute ->
             LET w == RouteWindow(call.start, call.end, call.now)
             IN  /\ Comparable(w.start, w.end)
                 /\ w.start.t < w.end.t
                 /\ (w.end.t - w.start.t - 1) \div Day < 30
      [] IsBaselineRoute ->
             call.hours = None \/ (1 <= call.hours[1] /\ call.hours[1] <= 168)
      [] OTHER -> TRUE

\* C18 as stated: for an unknown sensor the services return null (an empty
\* list from get_hourly_baselines) and the three sensor routes answer 404; a
\* sensor of an unregistered type gets null and is left out of listings.
C18_Original ==
    /\ ServicesAnswerNotFound
    /\ (IsRouteCall /\ OfUnknownSensor) => ret.status_code = 404

\* C18: for an unknown sensor the services return null (an empty list from
\* get_hourly_baselines) and the three sensor routes answer 404 to a request
\* that passes their parameter checks and the error of those checks (400,
\* 422, or 500 when the window's comparison raises) to one that does not; a
\* sensor of an unregistered type gets null and is left out of listings.
C18_NotFound ==
    /\ ServicesAnswerNotFound
    /\ (IsRouteCall /\ OfUnknownSensor) =>
           IF RequestIsValid THEN ret.status_code = 404
           ELSE ret.status_code \in {400, 422, 500}

\* the readings route asked for an unknown sensor with a valid window while
\* readings are stored
C18_Witness ==
    /\ IsReadingsRoute /\ OfUnknownSensor /\ RequestIsValid
    /\ call.start # None
    /\ LayerRows > 0
    /\ ret.status_code = 404

IsServiceCall ==
    \/ IsReadingsCall \/ IsDoorCall \/ IsPresenceCall \/ IsBaselineCall \/ IsHourlyCall
    \/ IsAllCall \/ IsByIdCall \/ IsByZoneCall

\* what the service call in progress returns when made on its own on the
\* tables as they are
ResultOnStoredData ==
    CASE IsReadingsCall ->
             get_sensor_readings(call.sensor_id, call.start, call.end, call.interval)
      [] IsDoorCall ->
             get_door_events(door_readings, call.start, call.end, call.sensor_id,
                             call.zone_id)
      [] IsPresenceCall ->
             get_presence_events(motion_readings, call.start, call.end, call.sensor_id,
                                 call.zone_id, call.min_duration_seconds)
      [] IsBaselineCall -> get_sensor_baseline(call.sensor_id, call.hours, call.now)
      [] IsHourlyCall -> get_hourly_baselines(call.sensor_id, call.days, call.now)
      [] IsAllCall -> get_all_sensors
      [] IsByIdCall -> get_sensor_by_id(call.sensor_id)
      [] IsByZoneCall -> get_sensors_by_zone(call.zone_id, call.sensor_type)

----------------------------------------------------------------------------
(* Soundness of the event filters. *)

\* every returned event is of the sensor the call is filtered by
OnlyFilteredSensor ==
    (IsEventCall /\ call.sensor_id # None) =>
        \A i \in DOMAIN ret : ret[i].sensor_id = call.sensor_id[1]

\* every presence event carries the zone of its sensor, which is the zone
\* the call is filtered by when it is filtered by zone alone
PresenceZones ==
    IsPresenceCall =>
        \A i \in DOMAIN ret :
            /\ ret[i].zone_id = SensorOf(ret[i].sensor_id).zone_id
            /\ (call.sensor_id = None /\ call.zone_id # None)
                   => ret[i].zone_id = call.zone_id[1]

\* every returned door event is of a door sensor of the zone z
DoorEventsOfZone(z) ==
    \A i \in DOMAIN ret :
        \E s \in Sensor : /\ s.id = ret[i].sensor_id
                          /\ s.sensor_type = "door"
                          /\ s.zone_id = z

\* C20 as stated: a sensor_id filter returns events of that sensor only, a
\* zone_id filter without sensor_id presence events of that zone only, each
\* presence event carries the zone of its sensor, and door events under a
\* zone filter come only from door sensors of that zone.
C20_Original ==
    /\ OnlyFilteredSensor
    /\ PresenceZones
    /\ (IsDoorCall /\ call.zone_id # None) => DoorEventsOfZone(call.zone_id[1])

\* C20: a sensor_id filter returns events of that sensor only, a zone_id
\* filter without sensor_id presence events of that zone only, each presence
\* event carries the zone of its sensor, and door events under a zone filter
\* without sensor_id come only from door sensors of that zone.
C20_FiltersSound ==
    /\ OnlyFilteredSensor
    /\ PresenceZones
    /\ (IsDoorCall /\ call.sensor_id = None /\ call.zone_id # None)
           => DoorEventsOfZone(call.zone_id[1])

\* a door query filtered by a zone without door sensors, answered with no
\* event although a door of another zone was open in the window
C20_Witness ==
    /\ IsDoorCall /\ call.sensor_id = None /\ call.zone_id = Some("cold-b")
    /\ \E r \in door_readings :
          r.value /\ call.start <= r.timestamp /\ r.timestamp <= call.end
    /\ ret = <<>>

----------------------------------------------------------------------------
(* The event routes: GET /api/doors/events and GET /api/presence/events.    *)

MAX_EVENTS_DAYS == 7
DEFAULT_LIMIT == 100
MAX_LIMIT == 1000

DoorEventsResponse(events, total_count) ==
    [events |-> events, total_count |-> total_count]

PresenceEventsResponse(events, total_count, safety_concerns_count) ==
    [events |-> events, total_count |-> total_count,
     safety_concerns_count |-> safety_concerns_count]

\* events[:limit] keeping the last limit events
Limited_Tail(events, limit) ==
    IF limit >= Len(events) THEN events
    ELSE SubSeq(events, Len(events) - limit + 1, Len(events))

\* events[:limit], for limit >= 1
Limited(events, limit) ==
    IF limit >= Len(events) THEN events ELSE SubSeq(events, 1, limit)

\* sum(1 for e in events if e.is_safety_concern)
SafetyConcerns(events) ==
    Cardinality({i \in DOMAIN events : events[i].is_safety_concern})

\* the walk of either event service evaluates end - current_event_start when
\* an event is still open at a sensor switch or after the last sample; the
\* stored timestamps are naive, so with an offset-aware end that subtraction
\* raises TypeError
SubtractsFromEnd(table, start, end, sensor_id, zone_id, sensor_type) ==
    IF sensor_type = "door"
    THEN LET events == get_door_events(table, start, end, sensor_id, zone_id)
         IN  \E i \in DOMAIN events : events[i].closed_at = None
    ELSE LET events == get_presence_events(table, start, end, sensor_id, zone_id, 0)
         IN  \E i \in DOMAIN events : events[i].ended_at = None

\* the handler of GET /api/doors/events; limit is declared with ge=1,
\* le=MAX_LIMIT and is DEFAULT_LIMIT when left out
list_door_events_run(sensor_id, zone_id, start, end, limit, now) ==
    LET limit_ == IF limit = None THEN DEFAULT_LIMIT ELSE limit[1]
        w == RouteWindow(start, end, now)
        awaited == <<[op |-> "get_door_events", start |-> w.start.t, end |-> w.end.t]>>
    IN  IF limit_ < 1 \/ limit_ > MAX_LIMIT THEN RouteRun(HTTPException(422), <<>>)
        ELSE IF ~Comparable(w.start, w.end) THEN RouteRun(InternalServerError, <<>>)
        ELSE IF w.start.t >= w.end.t THEN RouteRun(HTTPException(400), <<>>)
        ELSE IF LongerThanDays(w.start.t, w.end.t, MAX_EVENTS_DAYS)
             THEN RouteRun(HTTPException(400), <<>>)
        ELSE IF /\ w.end.aware
                /\ SubtractsFromEnd(door_readings, w.start.t, w.end.t, sensor_id,
                                    zone_id, "door")
             THEN RouteRun(InternalServerError, awaited)
        ELSE LET events == get_door_events(door_readings, w.start.t, w.end.t,
                                           sensor_id, zone_id)
                 limited_events == Limited(events, limit_)
             IN  RouteRun(Ok(DoorEventsResponse(limited_events, Len(events))), awaited)

\* the handler of GET /api/presence/events; min_duration is declared with
\* ge=0 and is 0 when left out
list_presence_events_run(sensor_id, zone_id, start, end, min_duration, limit, now) ==
    LET limit_ == IF limit = None THEN DEFAULT_LIMIT ELSE limit[1]
        min_duration_ == IF min_duration = None THEN 0 ELSE min_duration[1]
        w == RouteWindow(start, end, now)
        awaited == <<[op |-> "get_presence_events", start |-> w.start.t,
                      end |-> w.end.t]>>
    IN  IF limit_ < 1 \/ limit_ > MAX_LIMIT \/ min_duration_ < 0
        THEN RouteRun(HTTPException(422), <<>>)
        ELSE IF ~Comparable(w.start, w.end) THEN RouteRun(InternalServerError, <<>>)
        ELSE IF w.start.t >= w.end.t THEN RouteRun(HTTPException(400), <<>>)
        ELSE IF LongerThanDays(w.start.t, w.end.t, MAX_EVENTS_DAYS)
             THEN RouteRun(HTTPException(400), <<>>)
        ELSE IF /\ w.end.aware
                /\ SubtractsFromEnd(motion_readings, w.start.t, w.end.t, sensor_id,
                                    zone_id, "motion")
             THEN RouteRun(InternalServerError, awaited)
        ELSE LET events == get_presence_events(motion_readings, w.start.t, w.end.t,
                                               sensor_id, zone_id, min_duration_)
                 limited_events == Limited(events, limit_)
             IN  RouteRun(Ok(PresenceEventsResponse(limited_events, Len(events),
                                                    SafetyConcerns(events))),
                          awaited)

----------------------------------------------------------------------------
(* The routes with a time window as a state machine: door and motion        *)
(* samples are stored, a request is answered.                               *)

\* rows in the door and motion tables together
MaxRouteRows == 2

\* the clock of the requests
RouteNow == 1200500

\* windows <<start, end>> the routes accept for a maximum of days: left out,
\* given, ending before now, exactly the maximum, offset-aware
AcceptedWindows(days) ==
    {<<None, None>>,
     <<Some(Naive(0)), Some(Naive(1200000))>>,
     <<None, Some(Naive(600000))>>,
     <<Some(Naive(-(days \div 2) * Day)), Some(Naive((days - days \div 2) * Day))>>,
     <<Some(Aware(0)), Some(Aware(1200000))>>}

\* windows that are empty, reversed, longer than the maximum by a second, or
\* that start, offset-aware, before or after the naive now
OtherWindows(days) ==
    {<<Some(Naive(600000)), Some(Naive(600000))>>,
     <<Some(Naive(1200000)), Some(Naive(0))>>,
     <<Some(Naive(-(days \div 2) * Day)),
       Some(Naive((days - days \div 2) * Day + 1000))>>,
     <<Some(Aware(0)), None>>,
     <<Some(Aware(2400000)), None>>}

\* <<window, limit>> of the event requests
EventRequests ==
    (AcceptedWindows(MAX_EVENTS_DAYS) \X {None, Some(1), Some(0)})
        \cup (OtherWindows(MAX_EVENTS_DAYS) \X {Some(1)})
        \cup {<<<<None, None>>, Some(1001)>>}

\* <<window, limit, min_duration>> of the presence requests
PresenceRequests ==
    {<<q[1], q[2], None>> : q \in EventRequests}
        \cup {<<<<None, None>>, Some(1), m>> : m \in {Some(600), Some(-1)}}

\* <<sensor_id, zone_id>> of the event requests
DoorRouteFilters == {<<None, None>>, <<Some("loading-door"), None>>}

PresenceRouteFilters == {<<None, None>>, <<None, Some("cold-b")>>}

StoreSample ==
    /\ EventRows < MaxRouteRows
    /\ (InsertDoorReading \/ InsertMotionReading)

CallListDoorEvents ==
    /\ call = Idle
    /\ \E q \in EventRequests, f \in DoorRouteFilters :
          LET run == list_door_events_run(f[1], f[2], q[1][1], q[1][2], q[2], RouteNow)
          IN  /\ call' = [op |-> "GET doors/events", sensor_id |-> f[1],
                          zone_id |-> f[2], start |-> q[1][1], end |-> q[1][2],
                          limit |-> q[2], now |-> RouteNow,
                          service_calls |-> run.service_calls]
              /\ ret' = run.response
    /\ UNCHANGED tables

CallListPresenceEvents ==
    /\ call = Idle
    /\ \E q \in PresenceRequests, f \in PresenceRouteFilters :
          LET run == list_presence_events_run(f[1], f[2], q[1][1], q[1][2], q[3], q[2],
                                              RouteNow)
          IN  /\ call' = [op |-> "GET presence/events", sensor_id |-> f[1],
                          zone_id |-> f[2], start |-> q[1][1], end |-> q[1][2],
                          min_duration |-> q[3], limit |-> q[2], now |-> RouteNow,
                          service_calls |-> run.service_calls]
              /\ ret' = run.response
    /\ UNCHANGED tables

CallReadingsRoute ==
    /\ call = Idle
    /\ \E w \in AcceptedWindows(MAX_READINGS_DAYS) \cup OtherWindows(MAX_READINGS_DAYS),
          id \in {"loading-door", "no-such-sensor"} :
          LET run == get_readings_run(id, w[1], w[2], "raw", RouteNow)
          IN  /\ call' = [op |-> "GET readings", sensor_id |-> id, start |-> w[1],
                          end |-> w[2], interval |-> "raw", now |-> RouteNow,
                          service_calls |-> run.service_calls]
              /\ ret' = run.response
    /\ UNCHANGED tables

NextRoutes ==
    \/ StoreSample
    \/ CallListDoorEvents
    \/ CallListPresenceEvents
    \/ CallReadingsRoute
    \/ Return

SpecRoutes == Init /\ [][NextRoutes]_vars

----------------------------------------------------------------------------
(* Pagination and window validation of the routes.                          *)

IsDoorRoute == call.op = "GET doors/events"
IsPresenceRoute == call.op = "GET presence/events"
IsEventRoute == IsDoorRoute \/ IsPresenceRoute

\* the window of the request in progress, defaults applied
AskedWindow == RouteWindow(call.start, call.end, call.now)

\* the limit of the request in progress
AskedLimit == IF call.limit = None THEN 100 ELSE call.limit[1]

\* the full list of events the service reconstructs for the request in
\* progress
FullEventList ==
    IF IsDoorRoute
    THEN get_door_events(door_readings, AskedWindow.start.t, AskedWindow.end.t,
                         call.sensor_id, call.zone_id)
    ELSE get_presence_events(motion_readings, AskedWindow.start.t, AskedWindow.end.t,
                             call.sensor_id, call.zone_id,
                             IF call.min_duration = None THEN 0
                             ELSE call.min_duration[1])

\* C21: an answered event request returns the first limit events of the full
\* reconstructed list in its order, total_count is the length of the full
\* list, and safety_concerns_count counts the safety concerns of the full
\* list.
C21_Pagination ==
    (IsEventRoute /\ ret.status_code = 200) =>
        LET page == ret.body[1].events
        IN  /\ Len(page) = IF AskedLimit < Len(FullEventList) THEN AskedLimit
                           ELSE Len(FullEventList)
            /\ \A i \in DOMAIN page : page[i] = FullEventList[i]
            /\ ret.body[1].total_count = Len(FullEventList)
            /\ IsPresenceRoute =>
                   ret.body[1].safety_concerns_count =
                       Cardinality({i \in DOMAIN FullEventList :
                                        FullEventList[i].is_safety_concern})

\* a page of one presence event out of two, both safety concerns
C21_Witness ==
    /\ IsPresenceRoute /\ ret.status_code = 200
    /\ Len(ret.body[1].events) = 1
    /\ ret.body[1].total_count = 2
    /\ ret.body[1].safety_concerns_count = 2

\* the maximum window of the route in progress, in days
MaxDays == IF IsReadingsRoute THEN 30 ELSE 7

\* limit and min_duration of the request in progress are in their declared
\* ranges
OtherParametersAccepted ==
    /\ IsEventRoute => (1 <= AskedLimit /\ AskedLimit <= 1000)
    /\ IsPresenceRoute => (call.min_duration = None \/ call.min_duration[1] >= 0)

\* the window from a to b is empty, reversed or longer than days
BadWindow(a, b, days) ==
    \/ a >= b
    \/ (b \div Day) - (a \div Day) > days
    \/ (b \div Day) - (a \div Day) = days /\ b % Day > a % Day

\* C22: a window with start >= end or longer than the route's maximum is
\* answered 400 with no service call made; a left-out end is now and a
\* left-out start is 24 hours before end; the services are only invoked with
\* start < end and end - start within the maximum.
C22_WindowsValidated ==
    (IsEventRoute \/ IsReadingsRoute) =>
        /\ (/\ OtherParametersAccepted
            /\ BadWindow(AskedWindow.start.t, AskedWindow.end.t, MaxDays))
               => (ret.status_code = 400 /\ call.service_calls = <<>>)
        /\ \A i \in DOMAIN call.service_calls :
               LET c == call.service_calls[i]
               IN  /\ ~BadWindow(c.start, c.end, MaxDays)
                   /\ call.end = None => c.end = call.now
                   /\ call.start = None => c.start = c.end - 24 * Hour

----------------------------------------------------------------------------
(* The agent tools (app/agent/tools.py).  A datetime string is its form and *)
(* the wall-clock instant it writes; a summary is its first word, the rest  *)
(* of its fixed text and the values put into it.                            *)

DatetimeString(form, t) == [form |-> form, t |-> t]

\* "T": 2026-01-29T00:00:00, "T.f": with a fraction, "space": with a blank
\* for the T, "date": the date alone, "Z" and "offset": the T form with a Z
\* or a UTC offset, which is cut off and not applied
ParsedForms == {"T", "T.f", "space", "date", "Z", "offset"}

_parse_datetime(dt_str) ==
    IF dt_str.form \in ParsedForms THEN Returned(dt_str.t) ELSE Raised("ValueError")

Sentence(first, rest, values) == [first |-> first, rest |-> rest, values |-> values]

ToolResult(data, summary) == [data |-> data, summary |-> summary]

\* what a tool call did: its result or the exception it raised, whether it
\* opened a session, and the services it awaited
ToolRun(outcome, session, service_calls) ==
    [outcome |-> outcome, session |-> session, service_calls |-> service_calls]

\* not x, for an optional string
Not(x) == x = None \/ x = Some("")

\* the unit put after the values of a summary
SummaryUnit(sensor_type) ==
    CASE sensor_type = "environmental" -> "°C"
      [] sensor_type = "air_quality" -> "ppm"
      [] OTHER -> ""

ValuesOf(readings) == {readings[i].value : i \in DOMAIN readings}

\* interval_map.get(aggregation, "raw")
IntervalOf(aggregation) ==
    CASE aggregation \in {"hourly", "1h"} -> "1h"
      [] aggregation \in {"daily", "1d"} -> "1d"
      [] OTHER -> "raw"

\* one turn of the loop over the sensors of a zone, from the answer of
\* get_sensor_readings for the sensor; the id stands for the label
ZoneStep(before, sensor, result) ==
    IF result # None /\ result[1].readings # <<>>
    THEN [all_readings |->
              before.all_readings \o
                  [i \in DOMAIN result[1].readings |->
                      [sensor_id |-> sensor.id,
                       timestamp |-> result[1].readings[i].timestamp,
                       value |-> result[1].readings[i].value,
                       humidity |-> result[1].readings[i].humidity]],
          sensor_summaries |->
              Append(before.sensor_summaries,
                     <<sensor.id, MinOf(ValuesOf(result[1].readings)),
                       MaxOf(ValuesOf(result[1].readings)),
                       SummaryUnit(result[1].sensor_type)>>)]
    ELSE before

\* the loop over the sensors of a zone: the readings collected and the
\* per-sensor summaries after the first n sensors
RECURSIVE ZoneLoop(_, _, _, _, _)
ZoneLoop(sensors, n, start_dt, end_dt, interval) ==
    IF n = 0 THEN [all_readings |-> <<>>, sensor_summaries |-> <<>>]
    ELSE LET before == ZoneLoop(sensors, n - 1, start_dt, end_dt, interval)
             sensor == sensors[n]
             result == get_sensor_readings(sensor.id, start_dt, end_dt, interval)
         IN  ZoneStep(before, sensor, result)

\* query_sensor_data for one sensor, from the answer of get_sensor_readings
SensorBranch(sensor_id, result) ==
    IF result = None
    THEN Returned(ToolResult(<<>>, Sentence("No", "sensor found", <<sensor_id>>)))
    ELSE IF result[1].readings = <<>>
    THEN Returned(ToolResult(<<>>, Sentence("No", "readings found", <<sensor_id>>)))
    ELSE Returned(ToolResult(result[1].readings,
                             Sentence("Found", "readings for sensor",
                                      <<Len(result[1].readings),
                                        MinOf(ValuesOf(result[1].readings)),
                                        MaxOf(ValuesOf(result[1].readings)),
                                        SummaryUnit(result[1].sensor_type)>>)))

\* query_sensor_data for a zone, from the sensors of the zone and what the
\* loop over them collected; with more than three per-sensor summaries the
\* summary names the sensors by s.name, an attribute SensorConfig does not
\* have
ZoneBranch(zone_id, sensors, loop) ==
    IF sensors = <<>>
    THEN ToolRun(Returned(ToolResult(<<>>, Sentence("No", "sensors found in zone",
                                                   <<zone_id>>))),
                 TRUE, <<"get_sensors_by_zone">>)
    ELSE LET awaited == <<"get_sensors_by_zone">> \o
                            [i \in DOMAIN sensors |-> "get_sensor_readings"]
         IN  IF loop.all_readings = <<>>
             THEN ToolRun(Returned(ToolResult(<<>>, Sentence("No", "readings found in zone",
                                                            <<zone_id>>))),
                          TRUE, awaited)
             ELSE IF Len(loop.sensor_summaries) <= 3
             THEN ToolRun(Returned(ToolResult(
                              loop.all_readings,
                              Sentence("Found", "readings from sensors in zone",
                                       <<Len(loop.all_readings), loop.sensor_summaries>>))),
                          TRUE, awaited)
             ELSE ToolRun(Raised("AttributeError"), TRUE, awaited)

\* the zone branch once the sensors of the zone are fetched
ZoneQuery(zone_id, sensors, start_dt, end_dt, interval) ==
    ZoneBranch(zone_id, sensors,
               ZoneLoop(sensors, Len(sensors), start_dt, end_dt, interval))

query_sensor_data(sensor_id, zone_id, sensor_type, start, end, aggregation) ==
    IF Not(sensor_id) /\ Not(zone_id)
    THEN ToolRun(Returned(ToolResult(<<>>, Sentence("Error", "specify an id", <<>>))),
                 FALSE, <<>>)
    ELSE IF _parse_datetime(start).raised # None \/ _parse_datetime(end).raised # None
    THEN ToolRun(Returned(ToolResult(<<>>, Sentence("Error", "parsing dates", <<>>))),
                 FALSE, <<>>)
    ELSE IF ~Not(sensor_id)
    THEN ToolRun(SensorBranch(sensor_id[1],
                              get_sensor_readings(sensor_id[1],
                                                  _parse_datetime(start).value,
                                                  _parse_datetime(end).value,
                                                  IntervalOf(aggregation))),
                 TRUE, <<"get_sensor_readings">>)
    ELSE ZoneQuery(zone_id[1], get_sensors_by_zone(zone_id[1], sensor_type),
                   _parse_datetime(start).value, _parse_datetime(end).value,
                   IntervalOf(aggregation))

\* the tool get_door_events
tool_get_door_events(sensor_id, zone_id, start, end) ==
    IF _parse_datetime(start).raised # None \/ _parse_datetime(end).raised # None
    THEN ToolRun(Returned(ToolResult(<<>>, Sentence("Error", "parsing dates", <<>>))),
                 FALSE, <<>>)
    ELSE LET events == get_door_events(door_readings, _parse_datetime(start).value,
                                       _parse_datetime(end).value, sensor_id, zone_id)
             longest == MaxOf({events[i].duration_seconds : i \in DOMAIN events})
         IN  IF events = <<>>
             THEN ToolRun(Returned(ToolResult(<<>>, Sentence("No", "door events found",
                                                            <<>>))),
                          TRUE, <<"get_door_events">>)
             ELSE ToolRun(Returned(ToolResult(events,
                                              Sentence(IF Len(events) = 1 THEN "1"
                                                       ELSE "several",
                                                       "door events found",
                                                       <<Len(events), longest>>))),
                          TRUE, <<"get_door_events">>)

\* the tool get_thermal_presence
get_thermal_presence(sensor_id, zone_id, start, end, min_duration) ==
    IF _parse_datetime(start).raised # None \/ _parse_datetime(end).raised # None
    THEN ToolRun(Returned(ToolResult(<<>>, Sentence("Error", "parsing dates", <<>>))),
                 FALSE, <<>>)
    ELSE LET events == get_presence_events(motion_readings, _parse_datetime(start).value,
                                           _parse_datetime(end).value, sensor_id,
                                           zone_id, min_duration)
         IN  IF events = <<>>
             THEN ToolRun(Returned(ToolResult(<<>>, Sentence("No", "presence events found",
                                                            <<>>))),
                          TRUE, <<"get_presence_events">>)
             ELSE ToolRun(Returned(ToolResult(events,
                                              Sentence(IF Len(events) = 1 THEN "1"
                                                       ELSE "several",
                                                       "presence events found",
                                                       <<Len(events),
                                                         SafetyConcerns(events)>>))),
                          TRUE, <<"get_presence_events">>)

----------------------------------------------------------------------------
(* The tools as a state machine: the sensors of the loading bay and one     *)
(* motion sensor report, a tool is invoked.                                 *)

\* rows in the four tables together
MaxToolRows == 4

ToolSensors == {"loading-door", "loading-door-2", "loading-aq", "loading-temp",
                "cold-b-motion"}

\* the sample a sensor reports at 00:10
SampleOf(s) ==
    CASE SensorOf(s).sensor_type = "environmental" ->
             [sensor_id |-> s, timestamp |-> 600000, value |-> 40, humidity |-> 685]
      [] SensorOf(s).sensor_type = "air_quality" -> Row(s, 600000, 4000)
      [] OTHER -> Row(s, 600000, TRUE)

AllRows ==
    Cardinality(door_readings) + Cardinality(motion_readings)
        + Cardinality(environmental_readings) + Cardinality(air_quality_readings)

Report ==
    /\ call = Idle
    /\ AllRows < MaxToolRows
    /\ \E s \in ToolSensors :
          LET type == SensorOf(s).sensor_type
              grown(table, t) == IF type = t THEN table \cup {SampleOf(s)} ELSE table
          IN  /\ door_readings' = grown(door_readings, "door")
              /\ motion_readings' = grown(motion_readings, "motion")
              /\ environmental_readings' = grown(environmental_readings, "environmental")
              /\ air_quality_readings' = grown(air_quality_readings, "air_quality")
    /\ UNCHANGED <<call, ret>>

\* <<start, end>> strings of the tool calls
ToolWindows ==
    {<<DatetimeString("T", 0), DatetimeString("Z", 1200000)>>,
     <<DatetimeString("date", 0), DatetimeString("offset", 1200000)>>,
     <<DatetimeString("T", 1200000), DatetimeString("T", 0)>>,
     <<DatetimeString("words", 0), DatetimeString("T", 1200000)>>,
     <<DatetimeString("T", 0), DatetimeString("", 0)>>}

\* <<sensor_id, zone_id, sensor_type>> of query_sensor_data
QueryTargets ==
    {<<None, None, None>>, <<Some(""), None, Some("door")>>,
     <<Some("loading-aq"), None, None>>, <<Some("no-such-sensor"), Some("loading"), None>>,
     <<None, Some("loading"), None>>, <<None, Some("loading"), Some("door")>>,
     <<None, Some("cold-a"), None>>, <<None, Some("no-such-zone"), None>>}

Aggregations == {"raw", "hourly", "weekly"}

CallQuerySensorData ==
    /\ call = Idle
    /\ \E q \in QueryTargets, w \in ToolWindows, a \in Aggregations :
          LET run == query_sensor_data(q[1], q[2], q[3], w[1], w[2], a)
          IN  /\ call' = [op |-> "query_sensor_data", sensor_id |-> q[1],
                          zone_id |-> q[2], sensor_type |-> q[3], start |-> w[1],
                          end |-> w[2], aggregation |-> a, session |-> run.session,
                          service_calls |-> run.service_calls]
              /\ ret' = run.outcome
    /\ UNCHANGED tables

CallToolDoorEvents ==
    /\ call = Idle
    /\ \E f \in DoorRouteFilters, w \in ToolWindows :
          LET run == tool_get_door_events(f[1], f[2], w[1], w[2])
          IN  /\ call' = [op |-> "tool get_door_events", sensor_id |-> f[1],
                          zone_id |-> f[2], start |-> w[1], end |-> w[2],
                          session |-> run.session, service_calls |-> run.service_calls]
              /\ ret' = run.outcome
    /\ UNCHANGED tables

CallThermalPresence ==
    /\ call = Idle
    /\ \E f \in PresenceRouteFilters, w \in ToolWindows, m \in MinDurations :
          LET run == get_thermal_presence(f[1], f[2], w[1], w[2], m)
          IN  /\ call' = [op |-> "get_thermal_presence", sensor_id |-> f[1],
                          zone_id |-> f[2], start |-> w[1], end |-> w[2],
                          min_duration |-> m, session |-> run.session,
                          service_calls |-> run.service_calls]
              /\ ret' = run.outcome
    /\ UNCHANGED tables

NextTools ==
    \/ Report
    \/ CallQuerySensorData
    \/ CallToolDoorEvents
    \/ CallThermalPresence
    \/ Return

SpecTools == Init /\ [][NextTools]_vars

IsQueryTool == call.op = "query_sensor_data"
IsToolCall ==
    call.op \in {"query_sensor_data", "tool get_door_events", "get_thermal_presence"}

\* the call in progress was given a start or end that cannot be parsed, or
\* (query_sensor_data) neither a sensor nor a zone
Malformed ==
    \/ call.start.form \notin ParsedForms
    \/ call.end.form \notin ParsedForms
    \/ IsQueryTool /\ Not(call.sensor_id) /\ Not(call.zone_id)

\* the outcome is a returned {data, summary} envelope
IsEnvelope ==
    /\ ret.raised = None
    /\ DOMAIN ret.value = {"data", "summary"}

\* C23: a tool call with an unparseable start or end, or a query_sensor_data
\* call with neither sensor_id nor zone_id, returns an envelope with empty
\* data and a summary starting with 'Error' without opening a session or
\* calling a service; every tool call returns a {data, summary} envelope.
C23_MalformedReturned ==
    IsToolCall =>
        /\ IsEnvelope
        /\ Malformed =>
               /\ ret.value.data = <<>>
               /\ ret.value.summary.first = "Error"
               /\ ~call.session
               /\ call.service_calls = <<>>

----------------------------------------------------------------------------
(* The 24h stats and the trend positions of a summary record, stated from   *)
(* the stored readings of the sensor alone.                                 *)

\* the stored readings of a sensor in the 24 hours ending at its own latest
\* reading
OwnLastDay(sensor) ==
    {r \in StoredReadings(sensor) : r.timestamp >= LatestTime(sensor) - 24 * Hour}

AggregatingType(sensor) ==
    /\ Registered(sensor.sensor_type)
    /\ SENSOR_TYPE_REGISTRY[sensor.sensor_type].supports_aggregation

\* the stats of the record are those of the sensor's own last day
StatsOfOwnLastDay(rec) ==
    LET own == OwnLastDay(SensorOf(rec.id))
        values == {r.value : r \in own}
    IN  /\ rec.stats.min = MinOf(values)
        /\ rec.stats.max = MaxOf(values)
        /\ rec.stats.avg = RoundDiv(SumOf(own), Cardinality(own))

\* C24: the min, max and avg of the record of an aggregating sensor are
\* computed over exactly that sensor's samples within the 24 hours ending at
\* its own latest reading, also when it is returned with other sensors of
\* its type.
C24_OwnWindowStats ==
    \A rec \in ReturnedRecords :
        AggregatingType(SensorOf(rec.id)) => StatsOfOwnLastDay(rec)

\* the value of a calendar hour from its samples: the mean to one decimal
\* for an aggregating type, the number of true samples for a boolean type,
\* 0.0 without samples
ValueOfHour(sensor, group) ==
    IF group = {} THEN 0
    ELSE IF AggregatingType(sensor) THEN RoundDiv(SumOf(group), Cardinality(group))
    ELSE 10 * Cardinality({r \in group : r.value})

\* C27: with L the sensor's latest reading, trend[i] (0 <= i <= 23) is the
\* value of the calendar hour that contains L - 24h + i hours (mean for
\* aggregating types, count of true samples for boolean types, 0.0 without
\* samples); the hour that contains L itself is not among the 24 entries.
C27_TrendBuckets ==
    \A rec \in ReturnedRecords :
        /\ Len(rec.trend) = 24
        /\ \A i \in 1..24 :
              /\ rec.trend[i] =
                     ValueOfHour(SensorOf(rec.id), ReadingsInTrendHour(SensorOf(rec.id), i))
              /\ HourBucket(LatestTime(SensorOf(rec.id)) - 24 * Hour + (i - 1) * Hour)
                     # HourBucket(LatestTime(SensorOf(rec.id)))

\* the stats query of a type group returns no row for an aggregating sensor
\* without stored readings: its entry is the all-zero default with the unit
\* of the type
DefaultWithoutRows ==
    \A s \in Sensor :
        (AggregatingType(s) /\ StoredReadings(s) = {}) =>
            _get_24h_stats_batch({s}, [x \in {s.id} |-> 0])[s.id]
                = SensorStats(0, 0, 0, SENSOR_TYPE_REGISTRY[s.sensor_type].unit)

\* C28: the stats of a door or motion record are min 0, max 1, avg 0.5 with
\* unit 'events' whatever is stored; an aggregating sensor for which the
\* stats query returns no row gets min = max = avg = 0; the stats of an
\* aggregating record and the value of every record are taken from stored
\* readings, not from a default.
C28_StatsDefaults ==
    /\ DefaultWithoutRows
    /\ \A rec \in ReturnedRecords :
          LET s == SensorOf(rec.id)
              stored == {r.value : r \in StoredReadings(s)}
              latest == LatestRow(StoredReadings(s), s.id)
          IN  /\ ~AggregatingType(s) =>
                     rec.stats = [min |-> 0, max |-> 10, avg |-> 5, unit |-> "events"]
              /\ AggregatingType(s) =>
                     /\ rec.stats.min \in stored
                     /\ rec.stats.max \in stored
                     /\ rec.stats.min <= rec.stats.avg
                     /\ rec.stats.avg <= rec.stats.max
              /\ rec.reading.value =
                     format_reading_value(SENSOR_TYPE_REGISTRY[s.sensor_type],
                                          IF s.sensor_type = "door"
                                          THEN (IF latest.value THEN 10 ELSE 0)
                                          ELSE latest.value)

\* a door whose stored samples are all false, listed with the fixed stats,
\* next to a temperature sensor with stats of its readings
C28_Witness ==
    /\ \E rec \in ReturnedRecords :
          /\ rec.id = "loading-door"
          /\ \A r \in StoredReadings(SensorOf("loading-door")) : ~r.value
          /\ rec.stats.avg = 5
    /\ \E rec \in ReturnedRecords :
          /\ rec.id = "cold-b-temp"
          /\ rec.stats.max = -90

----------------------------------------------------------------------------
(* Order and shape of the events of one sensor.                             *)

\* the events of a sensor, in the order of the answer, open one after the
\* other without overlap; only the last may lack a close; a closed event
\* closes after it opens; no duration is negative
WellFormedEvents(es) ==
    \A i \in DOMAIN es :
        /\ es[i].close # None => es[i].open < es[i].close[1]
        /\ es[i].close = None => i = Len(es)
        /\ es[i].duration_seconds >= 0
        /\ i < Len(es) =>
               /\ es[i].open < es[i + 1].open
               /\ es[i].close # None => es[i].close[1] <= es[i + 1].open

\* C25: for each sensor the events of get_door_events, and of
\* get_presence_events with min_duration 0, are in strictly increasing open
\* order and do not overlap, at most the last has close = null, open < close
\* for every closed event, and no duration_seconds is negative.
C25_EventsWellFormed ==
    (IsDoorCall \/ (IsPresenceCall /\ call.min_duration_seconds = 0)) =>
        \A x \in SensorIds : WellFormedEvents(EventsOf(x))

\* a door that was open, closed and is open again at the end of the window:
\* a closed event followed by an open-ended one
C25_Witness ==
    /\ IsDoorCall
    /\ \E x \in SensorIds :
          /\ Len(EventsOf(x)) = 2
          /\ EventsOf(x)[1].close # None
          /\ EventsOf(x)[2].close = None

----------------------------------------------------------------------------
(* The locals of the reconstruction walk after each processed sample.       *)

\* the rows the call in progress walks over
WalkRows ==
    IF IsDoorCall
    THEN DoorQuery(door_readings, call.start, call.end, call.sensor_id, call.zone_id)
    ELSE PresenceQuery(motion_readings, call.start, call.end, call.sensor_id,
                       call.zone_id)

\* the locals after the first n rows
LocalsAfter(n) ==
    IF IsDoorCall THEN DoorWalk(WalkRows, n, call.end)
    ELSE PresenceWalk(WalkRows, n, call.end, call.min_duration_seconds)

\* the locals after the sensor-switch part of the step for row n
LocalsAfterSwitch(n) ==
    IF IsDoorCall THEN DoorSwitch(LocalsAfter(n - 1), WalkRows[n], call.end)
    ELSE PresenceSwitch(LocalsAfter(n - 1), WalkRows[n], call.end,
                        call.min_duration_seconds)

\* the first sample of the run of consecutive true samples of x that
\* reaches up to its sample at t
RunStartAt(x, t) ==
    MinOf({u \in SampleTimes(x) :
              /\ u <= t
              /\ \A v \in SampleTimes(x) : (u <= v /\ v <= t) => StateAt(x, v)})

\* C26: after each processed sample the marker is open since the first
\* sample of the current run of true samples exactly when the sample was
\* true, and absent otherwise; marker and previous state are reset to absent
\* when the walk moves to another sensor; when a false sample follows a true
\* one of the same sensor, an event is open.
C26_WalkInvariant ==
    IsEventCall =>
        \A n \in DOMAIN WalkRows :
            LET row == WalkRows[n]
                moved == n = 1 \/ WalkRows[n - 1].sensor_id # row.sensor_id
            IN  /\ LocalsAfter(n).current_sensor_id = Some(row.sensor_id)
                /\ LocalsAfter(n).prev = Some(row.value)
                /\ LocalsAfter(n).current_event_start =
                       IF row.value
                       THEN Some(RunStartAt(row.sensor_id, row.timestamp))
                       ELSE None
                /\ moved => /\ LocalsAfterSwitch(n).current_event_start = None
                            /\ LocalsAfterSwitch(n).prev = None
                /\ (~moved /\ WalkRows[n - 1].value /\ ~row.value) =>
                       LocalsAfter(n - 1).current_event_start # None

\* the walk has passed two consecutive true samples of one sensor, the
\* marker still at the first, and has then moved to another sensor
C26_Witness ==
    /\ IsEventCall
    /\ Len(WalkRows) = 3
    /\ WalkRows[1].sensor_id = WalkRows[2].sensor_id
    /\ WalkRows[1].value /\ WalkRows[2].value
    /\ LocalsAfter(2).current_event_start = Some(WalkRows[1].timestamp)
    /\ WalkRows[3].sensor_id # WalkRows[2].sensor_id

\* ---------------------------------------------------------------------
\* POST /api/agent/chat (app/routes/agent.py): the event stream.
\* call is the request and the position of the event_stream generator,
\* ret the server-sent events written so far.
\* ---------------------------------------------------------------------

AGENT_TIMEOUT == 60

\* agent events one stream consumes at most
MaxAgentEvents == 3

sse_event(event_type, data) == [event |-> event_type, data |-> data]

TimeoutMessage == <<"Timeout after", AGENT_TIMEOUT, "s">>

\* request.message as json.loads reads it: not JSON at all, a JSON object
\* with or without a "type", or JSON that is not an object
ChatMessages ==
    { [json |-> None],
      [json |-> Some([kind |-> "object", type |-> None])],
      [json |-> Some([kind |-> "object", type |-> Some("generate_viz")])],
      [json |-> Some([kind |-> "object", type |-> Some("request_ideas")])],
      [json |-> Some([kind |-> "array", type |-> None])] }

\* the parse at the head of chat(): only JSONDecodeError is caught, so
\* .get on a parsed value that is not a dict leaves the handler
msg_type_of(message) ==
    IF message.json = None THEN Returned("text")
    ELSE IF message.json[1].kind # "object" THEN Raised("AttributeError")
    ELSE IF message.json[1].type = None THEN Returned("text")
    ELSE Returned(message.json[1].type[1])

Stream(msg_type, pc) ==
    [op |-> "POST chat", msg_type |-> msg_type, pc |-> pc, n |-> 0,
     visualization_data |-> None, final_text |-> FALSE,
     has_emitted_thinking |-> FALSE, failure |-> "none"]

InStream(pc) == call.op = "POST chat" /\ call.pc = pc

Emit(event) == ret' = Append(ret, event)

\* chat(): the message type is read and the StreamingResponse is returned
\* around a generator that has not run yet
PostChat ==
    /\ call = Idle
    /\ \E message \in ChatMessages :
          LET t == msg_type_of(message) IN
          call' = IF t.raised # None THEN Stream("text", "no stream")
                  ELSE Stream(t.value, "start")
    /\ ret' = <<>>
    /\ UNCHANGED tables

\* the generator up to its timeout block: get_agent, the thread config and
\* the branch's opening text event
StreamStarts ==
    /\ InStream("start")
    /\ \/ /\ call' = [call EXCEPT !.pc = "block"]
          /\ IF call.msg_type = "generate_viz"
             THEN Emit(sse_event("text", "Generating"))
             ELSE IF call.msg_type = "request_ideas"
             THEN Emit(sse_event("text", "Analyzing conversation..."))
             ELSE ret' = ret
       \/ /\ call' = [call EXCEPT !.pc = "tail", !.failure = "exception"]
          /\ Emit(sse_event("error", "str(e)"))
    /\ UNCHANGED tables

\* the events one item of the agent's stream can make the generator yield
YieldsOf(stream) ==
    IF stream.msg_type = "generate_viz"
    THEN {sse_event("progress", ""), sse_event("tool_use", "")}
    ELSE IF stream.msg_type = "request_ideas" THEN {}
    ELSE {sse_event("tool_use", ""), sse_event("text", "intermediate")}
         \cup (IF stream.has_emitted_thinking THEN {}
               ELSE {sse_event("progress", "Analyzing your question...")})

\* an item of the agent's stream arrives inside the timeout block and is
\* turned into an event: the generator is suspended at that yield
AgentYields ==
    /\ InStream("block")
    /\ call.n < MaxAgentEvents
    /\ \E event \in YieldsOf(call) :
          /\ Emit(event)
          /\ call' = [call EXCEPT !.pc = "yielded", !.n = @ + 1,
                         !.has_emitted_thinking = @ \/ event.event = "progress"]
    /\ UNCHANGED tables

\* an item that yields nothing: a state update carrying the node's
\* visualization or error message, or the chat model's final answer
AgentUpdates ==
    /\ InStream("block")
    /\ call.n < MaxAgentEvents
    /\ \/ /\ call.msg_type = "generate_viz"
          /\ \E data \in {"visualization", "error"} :
                call' = [call EXCEPT !.visualization_data = Some(data), !.n = @ + 1]
       \/ /\ call.msg_type = "text"
          /\ call' = [call EXCEPT !.final_text = TRUE, !.n = @ + 1]
    /\ UNCHANGED <<tables, ret>>

\* the consumer has written the event and asks for the next one
Resume ==
    /\ InStream("yielded")
    /\ call' = [call EXCEPT !.pc = "block"]
    /\ UNCHANGED <<tables, ret>>

\* the events written between the end of the timeout block and the handlers
AfterBlock(stream, ideas) ==
    IF stream.msg_type = "generate_viz"
    THEN IF stream.visualization_data = None
         THEN <<sse_event("error", "No visualization generated")>>
         ELSE IF stream.visualization_data[1] = "visualization"
         THEN <<sse_event("visualization", "")>>
         ELSE <<sse_event("error", "Generation failed")>>
    ELSE IF stream.msg_type = "request_ideas"
    THEN [i \in 1..ideas |-> sse_event("ideas", "")]
    ELSE IF stream.final_text THEN <<sse_event("text", "final")>> ELSE <<>>

\* the agent's run ends in time: the block is left and the result written;
\* reading the ideas out of the result can still raise
AgentEnds ==
    /\ InStream("block")
    /\ \E ideas \in 0..2, raises \in BOOLEAN :
          /\ raises => call.msg_type = "request_ideas"
          /\ call.msg_type # "request_ideas" => ideas = 0
          /\ ret' = ret \o AfterBlock(call, ideas)
                        \o (IF raises THEN <<sse_event("error", "str(e)")>> ELSE <<>>)
          /\ call' = [call EXCEPT !.pc = "tail",
                         !.failure = IF raises THEN "exception" ELSE @]
    /\ UNCHANGED tables

\* an exception leaves the agent's run: except Exception
AgentRaises ==
    /\ InStream("block")
    /\ Emit(sse_event("error", "str(e)"))
    /\ call' = [call EXCEPT !.pc = "tail", !.failure = "exception"]
    /\ UNCHANGED tables

\* the deadline passes while the generator waits for the agent inside the
\* block: the wait is cancelled, the block turns it into TimeoutError
TimeoutInBlock ==
    /\ InStream("block")
    /\ Emit(sse_event("error", TimeoutMessage))
    /\ call' = [call EXCEPT !.pc = "tail", !.failure = "timeout"]
    /\ UNCHANGED tables

\* the deadline passes while the generator is suspended at a yield inside
\* the block: asyncio.timeout cancels the task that entered the block, which
\* is then awaiting the write of the event outside the generator, so the
\* CancelledError ends the response and the generator is never resumed
TimeoutWhileSuspended ==
    /\ InStream("yielded")
    /\ call' = [call EXCEPT !.pc = "cancelled", !.failure = "timeout"]
    /\ UNCHANGED <<tables, ret>>

\* the last statement of the generator
EmitDone ==
    /\ InStream("tail")
    /\ Emit(sse_event("done", ""))
    /\ call' = [call EXCEPT !.pc = "closed"]
    /\ UNCHANGED tables

StreamOver == call.op = "POST chat" /\ call.pc \in {"closed", "cancelled"}

\* the response is over; the next request starts afresh
EndChat ==
    /\ \/ StreamOver
       \/ InStream("no stream")
    /\ call' = Idle
    /\ ret' = <<>>
    /\ UNCHANGED tables

NextChat ==
    \/ PostChat
    \/ StreamStarts
    \/ AgentYields
    \/ AgentUpdates
    \/ Resume
    \/ AgentEnds
    \/ AgentRaises
    \/ TimeoutInBlock
    \/ TimeoutWhileSuspended
    \/ EmitDone
    \/ EndChat

SpecChat == Init /\ [][NextChat]_vars

StreamEventsOf(kind) == {i \in 1..Len(ret) : ret[i].event = kind}

\* C29: a chat event stream that is over ends with its only "done" event;
\* after a timeout the event before it is the "error" with the timeout
\* message, after an exception it is an "error"; and no "text", "tool_use",
\* "ideas" or "visualization" event comes after an "error"
C29_StreamEndsWithDone ==
    StreamOver =>
        /\ Len(ret) > 0
        /\ ret[Len(ret)].event = "done"
        /\ Cardinality(StreamEventsOf("done")) = 1
        /\ call.failure = "timeout" =>
              /\ Len(ret) > 1
              /\ ret[Len(ret) - 1] = sse_event("error", TimeoutMessage)
        /\ call.failure = "exception" =>
              /\ Len(ret) > 1
              /\ ret[Len(ret) - 1].event = "error"
        /\ \A i \in StreamEventsOf("error") : \A j \in (i + 1)..Len(ret) :
              ret[j].event \notin {"text", "tool_use", "ideas", "visualization"}

\* ---------------------------------------------------------------------
\* The agent graph (app/agent/graph.py, app/agent/nodes.py).
\* ret is the checkpoint of one thread, the AgentState the MemorySaver
\* keeps between runs; call is the graph run in progress.
\* ---------------------------------------------------------------------

\* runs one thread takes
MaxRuns == 3

HumanMessage(content) == [role |-> "human", content |-> content]
AIMessage(content) == [role |-> "ai", content |-> content]

\* message contents: text that is not JSON, or a JSON object with a "type"
\* (a select_idea carries its idea, which may be empty)
Text == [json |-> None]
Typed(type) == [json |-> Some([type |-> type, idea |-> None])]
SelectIdea(idea) == [json |-> Some([type |-> "select_idea", idea |-> idea])]

EmptyState ==
    [messages |-> <<>>, viz_messages |-> <<>>,
     message_type |-> None, selected_idea |-> None]

\* the state a run starts from: the thread's checkpoint, if it has one
Thread == IF ret = <<>> THEN EmptyState ELSE ret

IsHuman(channel) == channel # <<>> /\ channel[Len(channel)].role = "human"

\* the last human message: viz_messages is looked at first
LastHuman(state) ==
    IF IsHuman(state.viz_messages)
    THEN Some(state.viz_messages[Len(state.viz_messages)])
    ELSE IF IsHuman(state.messages)
    THEN Some(state.messages[Len(state.messages)])
    ELSE None

\* the update router_node returns
router_node(state) ==
    LET last_message == LastHuman(state) IN
    IF last_message = None
    THEN [message_type |-> Some("text"), selected_idea |-> None]
    ELSE LET parsed == last_message[1].content.json IN
         IF parsed = None
         THEN [message_type |-> Some("text"), selected_idea |-> None]
         ELSE [message_type |-> Some(parsed[1].type),
               selected_idea |-> IF parsed[1].type = "select_idea"
                                 THEN parsed[1].idea ELSE None]

route_by_message_type(state) ==
    IF state.message_type = Some("request_ideas") THEN "ideation_node"
    ELSE IF state.message_type = Some("select_idea") THEN "generate_node"
    ELSE "chat_node"

Nodes == {"chat_node", "ideation_node", "generate_node"}

\* what the callers submit: chat text on the messages channel, the two
\* visualization requests on the viz_messages channel
Submissions ==
    { [channel |-> "messages", content |-> Text],
      [channel |-> "viz_messages", content |-> Typed("request_ideas")],
      [channel |-> "viz_messages", content |-> SelectIdea(Some("idea"))],
      [channel |-> "viz_messages", content |-> SelectIdea(None)] }

\* add_messages: the update is appended to the channel
add_messages(state, channel, new) ==
    IF channel = "messages"
    THEN [state EXCEPT !.messages = @ \o new]
    ELSE [state EXCEPT !.viz_messages = @ \o new]

HumanCount(state) ==
    Len(SelectSeq(state.messages \o state.viz_messages,
                  LAMBDA m : m.role = "human"))

InRun == call.op = "graph run"

\* agent.ainvoke / astream with one new message: the input is written to
\* the thread and the run enters at the router
Submit ==
    /\ call = Idle
    /\ HumanCount(Thread) < MaxRuns
    /\ \E s \in Submissions :
          /\ ret' = add_messages(Thread, s.channel, <<HumanMessage(s.content)>>)
          /\ call' = [op |-> "graph run", submitted |-> s.content,
                      at |-> "router", path |-> <<>>]
    /\ UNCHANGED tables

RunRouter ==
    /\ InRun
    /\ call.at = "router"
    /\ LET update == router_node(ret)
           state == [ret EXCEPT !.message_type = update.message_type,
                                !.selected_idea = update.selected_idea]
       IN  /\ ret' = state
           /\ call' = [call EXCEPT !.at = route_by_message_type(state),
                                   !.path = Append(@, "router")]
    /\ UNCHANGED tables

\* the update a node returns when it runs to its end
NodeUpdate(node, state) ==
    IF node = "chat_node"
    THEN [channel |-> "messages", new |-> <<AIMessage(Text)>>]
    ELSE IF node = "ideation_node"
    THEN [channel |-> "viz_messages", new |-> <<AIMessage(Typed("ideas"))>>]
    ELSE IF state.selected_idea = None
    THEN [channel |-> "viz_messages", new |-> <<AIMessage(Typed("error"))>>]
    ELSE [channel |-> "viz_messages", new |-> <<AIMessage(Typed("visualization"))>>]

\* the routed node returns; its edge leads to END
RunNode ==
    /\ InRun
    /\ call.at \in Nodes
    /\ LET update == NodeUpdate(call.at, ret)
       IN  ret' = add_messages(ret, update.channel, update.new)
    /\ call' = [call EXCEPT !.at = "END", !.path = Append(@, call.at)]
    /\ UNCHANGED tables

\* the routed node raises, or the caller's timeout cancels the run while
\* the node works: nothing is written, the thread keeps the input and the
\* router's update
NodeFails ==
    /\ InRun
    /\ call.at \in Nodes
    /\ call' = [call EXCEPT !.at = "aborted", !.path = Append(@, call.at)]
    /\ UNCHANGED <<tables, ret>>

\* the run is over; the thread stays with the checkpointer
EndRun ==
    /\ InRun
    /\ call.at \in {"END", "aborted"}
    /\ call' = Idle
    /\ UNCHANGED <<tables, ret>>

NextGraph ==
    \/ Submit
    \/ RunRouter
    \/ RunNode
    \/ NodeFails
    \/ EndRun

SpecGraph == Init /\ [][NextGraph]_vars

\* the node the type of a submitted message stands for
NodeFor(content) ==
    IF content.json = None THEN "chat_node"
    ELSE IF content.json[1].type = "request_ideas" THEN "ideation_node"
    ELSE IF content.json[1].type = "select_idea" THEN "generate_node"
    ELSE "chat_node"

\* C30: every graph run is routed by the message it was submitted with,
\* whatever the thread holds: once the router has run, the run is at, or
\* has executed, the node of that message's type and no other; and a run
\* that ended executed the router and then exactly that one node
C30_RoutedByNewMessage ==
    (InRun /\ call.at # "router") =>
        /\ call.path[1] = "router"
        /\ IF call.at \in Nodes
           THEN call.path = <<"router">> /\ call.at = NodeFor(call.submitted)
           ELSE call.path = <<"router", NodeFor(call.submitted)>>

====
